---- MODULE Spec2Model ----
(***************************************************************************)
(* DateInput (packages/components/inputs/date-input/src/date-input.tsx):   *)
(* the calendar navigation and selection state machine.                    *)
(*                                                                         *)
(* Representation.  A canonical date string 'YYYY-MM-DD' is the integer    *)
(* YYYYMMDD: the order of the integers is the order of the strings and of  *)
(* the days.  The empty string '' of value/minValue/maxValue is            *)
(* EmptyString, JavaScript's null is Null.  The raw text of the input box  *)
(* is a sequence of one-character strings, so that formatting and parsing  *)
(* are computed and not assumed.                                           *)
(***************************************************************************)
EXTENDS Integers, Sequences, FiniteSets, TLC

\* ------------------------------------------------------------------------
\* Bounds of the exploration
\* ------------------------------------------------------------------------
\* The calendar months the exploration displays: January and February (a
\* month of 31 days, then the month whose length depends on the year) of
\* MaxYears consecutive years starting with FirstYear.  Navigation that would
\* leave them is not explored.
MaxYears == 2
\* A cell is clicked, hovered or reached with an arrow key only within
\* MaxEdge days of either end of its month.
MaxEdge == 2

\* changeMonth is called with the amounts -MaxAmount..MaxAmount.
MaxAmount == 13

\* props.filters of the Filters component holds at most MaxFilters filters.
MaxFilters == 2

FirstYear == 2000 + 24

ExploredMonthsOfYear == {1, 2}

\* ------------------------------------------------------------------------
\* JavaScript values
\* ------------------------------------------------------------------------
EmptyString == 0
Null == -2

MkDate(y, m, d) == y * 10000 + m * 100 + d
YearOf(date) == date \div 10000
MonthOf(date) == (date \div 100) % 100

\* ------------------------------------------------------------------------
\* calendar-utils (package @commercetools-uikit/calendar-utils)
\* ------------------------------------------------------------------------
IsLeapYear(y) == (y % 4 = 0 /\ y % 100 # 0) \/ y % 400 = 0

DaysIn(y, m) ==
  IF m = 2 THEN (IF IsLeapYear(y) THEN 29 ELSE 28)
  ELSE IF m \in {4, 6, 9, 11} THEN 30 ELSE 31

IsRealDate(y, m, d) == m \in 1..12 /\ d >= 1 /\ d <= DaysIn(y, m)

\* getToday(): the model's clock stands on the last day of a month, the day
\* on which an index one too high leaves the grid.
getToday == MkDate(FirstYear, 1, 31)

\* moment(undefined) is the current time: an undefined day reads as today.
AsMoment(day) == IF day = Null THEN getToday ELSE day

getDateInMonth(day) == AsMoment(day) % 100

getDaysInMonth(day) == DaysIn(YearOf(AsMoment(day)), MonthOf(AsMoment(day)))

Min(a, b) == IF a <= b THEN a ELSE b

\* changeMonth that keeps the day of the month as it is.
changeMonthUnclamped(day, delta) ==
  LET idx == YearOf(day) * 12 + (MonthOf(day) - 1) + delta
  IN  MkDate(idx \div 12, (idx % 12) + 1, getDateInMonth(day))

\* changeMonth(day, delta): moment(day).add(delta, 'month'), the day of the
\* month clamped to the last day of the target month.
changeMonth(day, delta) ==
  LET idx == YearOf(day) * 12 + (MonthOf(day) - 1) + delta
      y == idx \div 12
      m == (idx % 12) + 1
  IN  MkDate(y, m, Min(getDateInMonth(day), DaysIn(y, m)))

getNextDay(day) ==
  LET t == AsMoment(day)
      y == YearOf(t)
      m == MonthOf(t)
      d == getDateInMonth(t)
  IN  IF d < DaysIn(y, m) THEN MkDate(y, m, d + 1)
      ELSE IF m < 12 THEN MkDate(y, m + 1, 1)
      ELSE MkDate(y + 1, 1, 1)

getPreviousDay(day) ==
  LET t == AsMoment(day)
      y == YearOf(t)
      m == MonthOf(t)
      d == getDateInMonth(t)
  IN  IF d > 1 THEN MkDate(y, m, d - 1)
      ELSE IF m > 1 THEN MkDate(y, m - 1, DaysIn(y, m - 1))
      ELSE MkDate(y - 1, 12, 31)

\* A range check that enforces min only.
getIsDateInRangeMinOnly(item, min, max) ==
  /\ item # EmptyString
  /\ item # Null
  /\ (min = EmptyString \/ item >= min)

\* getIsDateInRange(item, min, max): an absent item is never in range, an
\* absent bound ('' or undefined) is not enforced.
getIsDateInRange(item, min, max) ==
  /\ item # EmptyString
  /\ item # Null
  /\ (min = EmptyString \/ item >= min)
  /\ (max = EmptyString \/ item <= max)

\* createCalendarItems(day): the days of day's month, in ascending order.
createCalendarItems(day) ==
  [i \in 1..getDaysInMonth(day) |-> MkDate(YearOf(day), MonthOf(day), i)]

\* moment.localeData(locale).firstDayOfWeek(): 0 is Sunday, 1 is Monday.
firstDayOfWeek(locale) == IF locale = "de" THEN 1 ELSE 0

MonthOffsets == <<0, 3, 2, 5, 0, 3, 5, 1, 4, 6, 2, 4>>

\* moment(day).day(): the day of the week of a Gregorian date, 0 is Sunday.
getDay(day) ==
  LET m == MonthOf(day)
      y == IF m < 3 THEN YearOf(day) - 1 ELSE YearOf(day)
  IN  (y + (y \div 4) - (y \div 100) + (y \div 400) + MonthOffsets[m]
         + getDateInMonth(day)) % 7

\* getPaddingDayCount(day, locale): the blank cells before day 1, so that
\* day 1 stands under its day of the week.
getPaddingDayCount(day, locale) ==
  LET firstDayOfMonth == getDay(MkDate(YearOf(day), MonthOf(day), 1))
  IN  (firstDayOfMonth - firstDayOfWeek(locale) + 7) % 7

\* ------------------------------------------------------------------------
\* Text: formatting and parsing
\* ------------------------------------------------------------------------
Digits == <<"0", "1", "2", "3", "4", "5", "6", "7", "8", "9">>

DigitSet == {Digits[i] : i \in 1..10}

IsDigit(c) == c \in DigitSet

DigitValues == [c \in DigitSet |-> (CHOOSE i \in 1..10 : Digits[i] = c) - 1]

DigitValue(c) == DigitValues[c]

Pad2(n) == <<Digits[((n \div 10) % 10) + 1], Digits[(n % 10) + 1]>>

Pad4(n) == Pad2(n \div 100) \o Pad2(n % 100)

\* The separator of the locale's short date format 'L'.
LocaleSeparator(locale) == IF locale = "de" THEN "." ELSE "/"

\* formatDate(day, locale): moment(day).format('L'),
\* MM/DD/YYYY for en, DD.MM.YYYY for de.
formatDate(day, locale) ==
  LET sep == <<LocaleSeparator(locale)>>
      mm == Pad2(MonthOf(day))
      dd == Pad2(getDateInMonth(day))
      yyyy == Pad4(YearOf(day))
  IN  IF locale = "de" THEN dd \o sep \o mm \o sep \o yyyy
      ELSE mm \o sep \o dd \o sep \o yyyy

\* createItemToString(locale): null is shown as the empty text.
itemToString(item, locale) ==
  IF item = Null \/ item = EmptyString THEN <<>> ELSE formatDate(item, locale)

\* The canonical serialization YYYY-MM-DD as text.
IsoText(day) ==
  Pad4(YearOf(day)) \o <<"-">> \o Pad2(MonthOf(day)) \o <<"-">>
    \o Pad2(getDateInMonth(day))

AllDigits(text, from, to) == \A i \in from..to : IsDigit(text[i])

RECURSIVE NumberAt(_, _, _)
NumberAt(text, from, to) ==
  IF to < from THEN 0
  ELSE NumberAt(text, from, to - 1) * 10 + DigitValue(text[to])

DateOrEmpty(y, m, d) == IF IsRealDate(y, m, d) THEN MkDate(y, m, d) ELSE EmptyString

\* A parser that reads every text as month, day, year.
parseInputToDateMonthFirst(text, locale) ==
  IF Len(text) = 10 /\ AllDigits(text, 1, 2) /\ AllDigits(text, 4, 5)
       /\ AllDigits(text, 7, 10)
    THEN DateOrEmpty(NumberAt(text, 7, 10), NumberAt(text, 1, 2),
                     NumberAt(text, 4, 5))
    ELSE EmptyString

\* parseInputToDate(text, locale): the text in the locale's format 'L', or
\* else in the form YYYY-MM-DD; '' when the text is blank or is no date.
\* The callers test the result with `date === ''` and `!date`.
parseInputToDate(text, locale) ==
  LET sep == LocaleSeparator(locale)
      isLocale == /\ Len(text) = 10
                  /\ text[3] = sep /\ text[6] = sep
                  /\ AllDigits(text, 1, 2) /\ AllDigits(text, 4, 5)
                  /\ AllDigits(text, 7, 10)
      isIso == /\ Len(text) = 10
               /\ text[5] = "-" /\ text[8] = "-"
               /\ AllDigits(text, 1, 4) /\ AllDigits(text, 6, 7)
               /\ AllDigits(text, 9, 10)
      a == NumberAt(text, 1, 2)
      b == NumberAt(text, 4, 5)
      y == NumberAt(text, 7, 10)
  IN  IF isLocale
        THEN (IF locale = "de" THEN DateOrEmpty(y, b, a) ELSE DateOrEmpty(y, a, b))
      ELSE IF isIso
        THEN DateOrEmpty(NumberAt(text, 1, 4), NumberAt(text, 6, 7),
                         NumberAt(text, 9, 10))
      ELSE EmptyString

\* String.prototype.trim() === ''
IsBlankAfterTrim(text) == \A i \in 1..Len(text) : text[i] = " "

\* ------------------------------------------------------------------------
\* State
\* ------------------------------------------------------------------------
VARIABLES
  value,            \* props.value: '' or the date the consumer holds
  minValue,         \* props.minValue, '' when absent
  maxValue,         \* props.maxValue, '' when absent
  isReadOnly,       \* props.isReadOnly
  isDisabled,       \* props.isDisabled
  hasOnChange,      \* typeof props.onChange === 'function'
  appearance,       \* props.appearance: "default" or "filter"
  locale,           \* intl.locale
  calendarDate,     \* useState: a day of the displayed month
  suggestedItems,   \* useState: the dates parsed from the typed text
  highlightedIndex, \* useState: index into calendarItems, or Null
  isOpen,           \* Downshift state: the menu is open
  inputValue,       \* Downshift state: the raw text of the input box
  lastEvent,        \* the event handled last
  eventText,        \* the text lastEvent carried (event.target.value)
  onChangeCalls,    \* the values props.onChange received during lastEvent
  downshiftPrevented, \* lastEvent set nativeEvent.preventDownshiftDefault
  call,             \* a call of a function of calendar-utils on its own
  filters,          \* Filters: props.filters, each a key and isPersistent
  appliedFilters,   \* Filters: the filterKey of each of props.appliedFilters
  localVisibleFilters, \* Filters useState: the keys of the filters shown
  persistedFiltersRef, \* Filters useRef: persistedFiltersRef.current
  showFilterControls,  \* Filters useState
  effectPending,    \* Filters: rendered, the effect of the render not yet run
  filtersEvent,     \* Filters: the event handled last
  filterCalls       \* Filters: the callbacks of props the last event called

props ==
  <<minValue, maxValue, isReadOnly, isDisabled, hasOnChange, appearance, locale>>

\* The state of the Filters component.
filtersVars ==
  <<filters, appliedFilters, localVisibleFilters, persistedFiltersRef,
    showFilterControls, effectPending, filtersEvent, filterCalls>>

\* The state of DateInput.
dateInputVars ==
  <<value, minValue, maxValue, isReadOnly, isDisabled, hasOnChange,
    appearance, locale,
    calendarDate, suggestedItems, highlightedIndex, isOpen, inputValue,
    lastEvent, eventText, onChangeCalls, downshiftPrevented>>

vars == <<dateInputVars, call, filtersVars>>

\* No Filters component is mounted.
FiltersUnmounted ==
  /\ filters = <<>>
  /\ appliedFilters = <<>>
  /\ localVisibleFilters = <<>>
  /\ persistedFiltersRef = <<>>
  /\ showFilterControls = FALSE
  /\ effectPending = FALSE
  /\ filtersEvent = "None"
  /\ filterCalls = <<>>

\* The texts a user types in the exploration: the empty text, a blank one,
\* a day that does not exist, a date in the locale's format and a date in
\* the form YYYY-MM-DD.
TypedTexts ==
  { <<>>, <<" ">>,
    formatDate(MkDate(FirstYear, 2, 30), "en"),
    formatDate(MkDate(FirstYear, 1, 31), "en"),
    IsoText(MkDate(FirstYear, 2, 10)) }

\* The pairs <<minValue, maxValue>> of the exploration.
RangeConfigs ==
  { <<EmptyString, EmptyString>>,
    <<MkDate(FirstYear, 1, 30), MkDate(FirstYear, 2, 1)>>,
    <<MkDate(FirstYear, 2, 1), EmptyString>>,
    <<EmptyString, MkDate(FirstYear, 1, 31)>> }

\* The months of the exploration.
InExploredMonths(day) ==
  /\ YearOf(day) >= FirstYear
  /\ YearOf(day) < FirstYear + MaxYears
  /\ MonthOf(day) \in ExploredMonthsOfYear

\* ------------------------------------------------------------------------
\* The render: values derived from props and state (lines 274-280, 386-389)
\* ------------------------------------------------------------------------
calendarItems == createCalendarItems(calendarDate)

\* calendarItems.length: Array.from({length: moment(day).daysInMonth()})
calendarItemsLength == getDaysInMonth(calendarDate)

paddingDayCount == getPaddingDayCount(calendarDate, locale)

\* Array(paddingDayCount).fill(undefined)
paddingDays == [i \in 1..paddingDayCount |-> Null]

\* The cells of CalendarContent without the blank ones.
calendarCellsUnpadded ==
  [i \in 1..calendarItemsLength |-> [type |-> "day", item |-> calendarItems[i]]]

\* The cells of CalendarContent below the weekday headings: a spacing cell
\* for each of paddingDays, then a day cell for each of calendarItems.
calendarCells ==
  [i \in 1..Len(paddingDays) |-> [type |-> "spacing", item |-> Null]]
    \o [i \in 1..calendarItemsLength |->
          [type |-> "day", item |-> calendarItems[i]]]

\* selectedItem={props.value === '' ? null : props.value}
selectedItemOf(v) == IF v = EmptyString THEN Null ELSE v

\* calendarItems[Number(highlightedIndex)]: Number(null) is 0, an index
\* outside the array reads undefined.
itemAt(index) ==
  LET n == IF index = Null THEN 0 ELSE index
  IN  IF n >= 0 /\ n < calendarItemsLength THEN calendarItems[n + 1] ELSE Null

\* The CalendarMenu is rendered only while Downshift's menu is open.
menuShownWhenOpen == isOpen /\ ~isDisabled /\ ~isReadOnly

\* The CalendarMenu is rendered.
menuShown ==
  \/ (isOpen /\ ~isDisabled /\ ~isReadOnly)
  \/ (appearance = "filter" /\ ~isDisabled /\ ~isReadOnly)

\* Day cells that are never disabled.
itemNeverDisabled(index) == FALSE

\* getItemProps({disabled: !getIsDateInRange(item, minValue, maxValue)})
itemDisabled(index) == ~getIsDateInRange(itemAt(index), minValue, maxValue)

\* Downshift's items: getItemProps registers one per rendered day cell.
itemCount == calendarItemsLength

\* ------------------------------------------------------------------------
\* The handlers of DateInput.  A handler maps the pending state ds, a
\* record of isOpen, inputValue, suggestedItems, highlightedIndex,
\* calendarDate, the calls of onChange made so far and whether the handler
\* has thrown an error, to the next one; onChange tells whether props.onChange
\* is a function.  props and the state variables read are those of the
\* render the handler closes over.
\* ------------------------------------------------------------------------
pending ==
  [ isOpen |-> isOpen, inputValue |-> inputValue,
    suggestedItems |-> suggestedItems, highlightedIndex |-> highlightedIndex,
    calendarDate |-> calendarDate, calls |-> <<>>,
    onChange |-> hasOnChange, error |-> FALSE ]

\* emit that passes the value on as it is.
emitUnconverted(ds, v) ==
  IF ds.onChange THEN [ds EXCEPT !.calls = Append(@, v)] ELSE ds

\* emit that calls onChange(...) without the optional chaining: calling
\* undefined throws a TypeError.
emitUnguarded(ds, v) ==
  IF ds.onChange
    THEN [ds EXCEPT !.calls = Append(@, IF v = Null THEN EmptyString ELSE v)]
    ELSE [ds EXCEPT !.error = TRUE]

\* emit: onChange?.({target: {value: value || ''}})
emit(ds, v) ==
  IF ds.onChange
    THEN [ds EXCEPT !.calls = Append(@, IF v = Null THEN EmptyString ELSE v)]
    ELSE ds

handleChange(ds, date) == emit(ds, date)

\* A Today button that also commits today's date.
showTodayEmitting(ds) ==
  emit([ds EXCEPT !.calendarDate = getToday,
                  !.highlightedIndex =
                     Len(suggestedItems) + getDateInMonth(getToday) - 1],
       getToday)

showToday(ds) ==
  [ds EXCEPT !.calendarDate = getToday,
             !.highlightedIndex =
                Len(suggestedItems) + getDateInMonth(getToday) - 1]

\* jumpMonth that stays when the first day of the target month is out of
\* range.
jumpMonthWithinRange(ds, amount, dayToHighlight) ==
  LET nextDate == changeMonth(calendarDate, amount)
      firstDay == MkDate(YearOf(nextDate), MonthOf(nextDate), 1)
  IN  IF getIsDateInRange(firstDay, minValue, maxValue)
        THEN [ds EXCEPT !.calendarDate = nextDate,
                        !.highlightedIndex = dayToHighlight]
        ELSE ds

jumpMonth(ds, amount, dayToHighlight) ==
  [ds EXCEPT !.calendarDate = changeMonth(calendarDate, amount),
             !.highlightedIndex = dayToHighlight]

\* onInputBlur without the range check.
onInputBlurNoRangeCheck(ds, text) ==
  LET date == parseInputToDate(text, locale)
      first == IF Len(text) = 0 THEN emit(ds, EmptyString) ELSE ds
  IN  IF date = EmptyString THEN first ELSE emit(first, date)

onInputBlur(ds, text) ==
  LET date == parseInputToDate(text, locale)
      inRange == getIsDateInRange(date, minValue, maxValue)
      first == IF Len(text) = 0 THEN emit(ds, EmptyString) ELSE ds
  IN  IF date = EmptyString \/ ~inRange THEN first ELSE emit(first, date)

\* onStateChange that stores what the text parses to without testing it.
onStateChangeStoringUnparsed(ds, changed, changes, type) ==
  IF "inputValue" \in changed
    THEN IF type = "changeInput"
           THEN LET date == parseInputToDate(changes.inputValue, locale)
                IN  [ds EXCEPT
                       !.suggestedItems = <<date>>,
                       !.highlightedIndex =
                          IF getIsDateInRange(date, minValue, maxValue)
                            THEN getDateInMonth(date) - 1 ELSE @,
                       !.calendarDate = date]
           ELSE [ds EXCEPT !.suggestedItems = <<>>, !.highlightedIndex = Null]
  ELSE IF "highlightedIndex" \in changed
    THEN [ds EXCEPT !.highlightedIndex = changes.highlightedIndex]
  ELSE ds

\* onStateChange that leaves the highlight alone when a date is typed.
onStateChangeKeepingHighlight(ds, changed, changes, type) ==
  IF "inputValue" \in changed
    THEN IF type = "changeInput"
           THEN LET date == parseInputToDate(changes.inputValue, locale)
                IN  IF date = EmptyString
                      THEN [ds EXCEPT !.suggestedItems = <<>>,
                                      !.highlightedIndex = Null]
                      ELSE [ds EXCEPT !.suggestedItems = <<date>>,
                                      !.calendarDate = date]
           ELSE [ds EXCEPT !.suggestedItems = <<>>, !.highlightedIndex = Null]
  ELSE IF "highlightedIndex" \in changed
    THEN [ds EXCEPT !.highlightedIndex = changes.highlightedIndex]
  ELSE ds

\* onStateChange(changes): changed is the set of keys of changes.
onStateChange(ds, changed, changes, type) ==
  IF "inputValue" \in changed
    THEN IF type = "changeInput"
           THEN LET date == parseInputToDate(changes.inputValue, locale)
                IN  IF date = EmptyString
                      THEN [ds EXCEPT !.suggestedItems = <<>>,
                                      !.highlightedIndex = Null]
                      ELSE [ds EXCEPT
                              !.suggestedItems = <<date>>,
                              !.highlightedIndex =
                                 IF getIsDateInRange(date, minValue, maxValue)
                                   THEN getDateInMonth(date) - 1 ELSE @,
                              !.calendarDate = date]
           ELSE [ds EXCEPT !.suggestedItems = <<>>, !.highlightedIndex = Null]
  ELSE IF "highlightedIndex" \in changed
    THEN [ds EXCEPT !.highlightedIndex = changes.highlightedIndex]
  ELSE ds

\* ------------------------------------------------------------------------
\* Downshift, as DateInput uses it (lines 224-273): selectedItem and
\* highlightedIndex are controlled by props, isOpen and inputValue are its
\* own state.  sel is props.selectedItem at the time of the call.
\* ------------------------------------------------------------------------
\* internalSetState: stores the uncontrolled keys, calls onStateChange with
\* the keys whose value changes, and onChange when the selected item does.
internalSetState(ds, toSet, type, sel) ==
  LET cur == [ isOpen |-> ds.isOpen, inputValue |-> ds.inputValue,
               highlightedIndex |-> highlightedIndex, selectedItem |-> sel ]
      changed == {k \in DOMAIN toSet : toSet[k] # cur[k]}
      stored == [ds EXCEPT
                   !.isOpen = IF "isOpen" \in DOMAIN toSet
                                THEN toSet.isOpen ELSE @,
                   !.inputValue = IF "inputValue" \in DOMAIN toSet
                                    THEN toSet.inputValue ELSE @]
      told == IF changed # {} THEN onStateChange(stored, changed, toSet, type)
              ELSE stored
  IN  IF "selectedItem" \in changed
        THEN handleChange(told, toSet.selectedItem)
        ELSE told

\* setHighlightedIndex that takes null for the first item.
setDownshiftHighlightedIndexFirst(ds, index, type) ==
  internalSetState(ds, [highlightedIndex |-> IF index = Null THEN 0 ELSE index],
                   type, selectedItemOf(value))

setDownshiftHighlightedIndex(ds, index, type) ==
  internalSetState(ds, [highlightedIndex |-> index], type, selectedItemOf(value))

selectItem(ds, item, type) ==
  internalSetState(ds,
    [ isOpen |-> FALSE, highlightedIndex |-> Null, selectedItem |-> item,
      inputValue |-> itemToString(item, locale) ],
    type, selectedItemOf(value))

clearSelection(ds) ==
  internalSetState(ds,
    [ selectedItem |-> Null, inputValue |-> <<>>, highlightedIndex |-> Null,
      isOpen |-> FALSE ],
    "unknown", selectedItemOf(value))

\* openMenu that also displays the month of the selected date.
openMenuShowingSelected(ds) ==
  LET opened == internalSetState(ds, [isOpen |-> TRUE], "unknown",
                                 selectedItemOf(value))
  IN  IF value = EmptyString THEN opened
      ELSE [opened EXCEPT !.calendarDate = value]

openMenu(ds) ==
  internalSetState(ds, [isOpen |-> TRUE], "unknown", selectedItemOf(value))

toggleMenu(ds) ==
  IF ds.isOpen
    THEN internalSetState(ds, [isOpen |-> FALSE, highlightedIndex |-> Null],
                          "clickButton", selectedItemOf(value))
    ELSE internalSetState(ds, [isOpen |-> TRUE], "clickButton",
                          selectedItemOf(value))

\* reset: closes the menu and shows the selected item again.
reset(ds, type, sel) ==
  internalSetState(ds,
    [ isOpen |-> FALSE, highlightedIndex |-> Null,
      inputValue |-> itemToString(sel, locale) ],
    type, sel)

\* getNextNonDisabledIndex: the first enabled item from index on in the
\* direction of the move, wrapping once; -1 when every item is disabled.
getNextNonDisabledIndex(moveAmount, index) ==
  LET enabled == {i \in 0..(itemCount - 1) : ~itemDisabled(i)}
      ahead == IF moveAmount > 0 THEN {i \in enabled : i >= index}
               ELSE {i \in enabled : i <= index}
      pick(S) == IF moveAmount > 0
                   THEN CHOOSE i \in S : \A j \in S : i <= j
                   ELSE CHOOSE i \in S : \A j \in S : i >= j
  IN  IF ahead # {} THEN pick(ahead)
      ELSE IF enabled # {} THEN pick(enabled)
      ELSE -1

\* getNextWrappingIndex that moves by five items, as with the shift key.
getNextWrappingIndexByFive(moveAmount, baseIndex) ==
  LET last == itemCount - 1
      base == IF baseIndex = Null \/ baseIndex < 0 \/ baseIndex >= itemCount
                THEN (IF moveAmount > 0 THEN -1 ELSE last + 1)
                ELSE baseIndex
      moved == base + 5 * moveAmount
      wrapped == IF moved < 0 THEN last ELSE IF moved > last THEN 0 ELSE moved
      free == getNextNonDisabledIndex(moveAmount, wrapped)
  IN  IF free = -1 THEN (IF base >= itemCount THEN -1 ELSE base) ELSE free

\* getNextWrappingIndex(moveAmount, baseIndex, itemCount, ...)
getNextWrappingIndex(moveAmount, baseIndex) ==
  LET last == itemCount - 1
      base == IF baseIndex = Null \/ baseIndex < 0 \/ baseIndex >= itemCount
                THEN (IF moveAmount > 0 THEN -1 ELSE last + 1)
                ELSE baseIndex
      moved == base + moveAmount
      wrapped == IF moved < 0 THEN last ELSE IF moved > last THEN 0 ELSE moved
      free == getNextNonDisabledIndex(moveAmount, wrapped)
  IN  IF free = -1 THEN (IF base >= itemCount THEN -1 ELSE base) ELSE free

\* Downshift's own key handler of the input; it reads the state of the
\* render, not the updates the event has queued.
inputHandleKeyDown(ds, key) ==
  IF key = "Enter"
    THEN IF isOpen /\ highlightedIndex # Null
           THEN IF highlightedIndex >= itemCount \/ itemDisabled(highlightedIndex)
                  THEN ds
                  ELSE selectItem(ds, itemAt(highlightedIndex), "keyDownEnter")
           ELSE ds
  ELSE LET amount == IF key = "ArrowDown" THEN 1 ELSE -1
           opened == IF isOpen THEN ds
                     ELSE internalSetState(ds, [isOpen |-> TRUE], key,
                                           selectedItemOf(value))
       IN  setDownshiftHighlightedIndex(
             opened, getNextWrappingIndex(amount, highlightedIndex), key)

\* ------------------------------------------------------------------------
\* onKeyDown of the input (lines 305-369): the pending state and whether
\* Downshift's own handling is prevented.
\* ------------------------------------------------------------------------
NumberOf(index) == IF index = Null THEN 0 ELSE index

\* ArrowDown without the range check of the next day.
onKeyDownArrowDownNoRangeCheck(ds) ==
  IF NumberOf(highlightedIndex) + 1 >= calendarItemsLength
    THEN [ds |-> jumpMonth(ds, 1, 0), prevented |-> TRUE]
    ELSE [ds |-> ds, prevented |-> FALSE]

\* ArrowDown that takes the last day of the month for an inner day.
onKeyDownArrowDownOffByOne(ds) ==
  LET nextDayToHighlight == getNextDay(itemAt(highlightedIndex))
  IN  IF ~getIsDateInRange(nextDayToHighlight, minValue, maxValue)
        THEN [ds |-> ds, prevented |-> TRUE]
      ELSE IF NumberOf(highlightedIndex) + 1 > calendarItemsLength
        THEN [ds |-> jumpMonth(ds, 1, 0), prevented |-> TRUE]
      ELSE [ds |-> ds, prevented |-> FALSE]

\* ArrowDown that, with no highlight, checks the first day of the month.
onKeyDownArrowDownFromNoCell(ds) ==
  LET nextDayToHighlight == IF highlightedIndex = Null THEN itemAt(0)
                            ELSE getNextDay(itemAt(highlightedIndex))
  IN  IF ~getIsDateInRange(nextDayToHighlight, minValue, maxValue)
        THEN [ds |-> ds, prevented |-> TRUE]
      ELSE IF NumberOf(highlightedIndex) + 1 >= calendarItemsLength
        THEN [ds |-> jumpMonth(ds, 1, 0), prevented |-> TRUE]
      ELSE [ds |-> ds, prevented |-> FALSE]

onKeyDownArrowDown(ds) ==
  LET nextDayToHighlight == getNextDay(itemAt(highlightedIndex))
  IN  IF ~getIsDateInRange(nextDayToHighlight, minValue, maxValue)
        THEN [ds |-> ds, prevented |-> TRUE]
      ELSE IF NumberOf(highlightedIndex) + 1 >= calendarItemsLength
        THEN [ds |-> jumpMonth(ds, 1, 0), prevented |-> TRUE]
      ELSE [ds |-> ds, prevented |-> FALSE]

\* ArrowUp that counts the days of the displayed month, not of the previous.
onKeyDownArrowUpDisplayedMonthLength(ds) ==
  LET previousDay == getPreviousDay(itemAt(highlightedIndex))
  IN  IF ~getIsDateInRange(previousDay, minValue, maxValue)
        THEN [ds |-> ds, prevented |-> TRUE]
      ELSE IF NumberOf(highlightedIndex) <= 0
        THEN [ds |-> jumpMonth(ds, -1, getDaysInMonth(calendarDate) - 1),
              prevented |-> TRUE]
      ELSE [ds |-> ds, prevented |-> FALSE]

onKeyDownArrowUp(ds) ==
  LET previousDay == getPreviousDay(itemAt(highlightedIndex))
  IN  IF ~getIsDateInRange(previousDay, minValue, maxValue)
        THEN [ds |-> ds, prevented |-> TRUE]
      ELSE IF NumberOf(highlightedIndex) <= 0
        THEN [ds |-> jumpMonth(ds, -1, getDaysInMonth(previousDay) - 1),
              prevented |-> TRUE]
      ELSE [ds |-> ds, prevented |-> FALSE]

onKeyDownEnter(ds) ==
  [ ds |-> IF IsBlankAfterTrim(inputValue) THEN clearSelection(ds) ELSE ds,
    prevented |-> FALSE ]

onKeyDown(ds, key) ==
  IF isReadOnly THEN [ds |-> ds, prevented |-> TRUE]
  ELSE IF key = "Enter" THEN onKeyDownEnter(ds)
  ELSE IF key = "ArrowDown" THEN onKeyDownArrowDown(ds)
  ELSE onKeyDownArrowUp(ds)

\* ------------------------------------------------------------------------
\* Events.  Each action is one event handled to completion: the handler of
\* DateInput, Downshift's own handling unless prevented, and the consumer
\* storing the value it receives through onChange.  A disabled input
\* (line 379) receives no event.
\* ------------------------------------------------------------------------
Last(calls) == calls[Len(calls)]

Commit(pendingState, event, text, prevented) ==
  \E ds \in {pendingState} :
    /\ ~isDisabled
    /\ isOpen' = ds.isOpen
    /\ inputValue' = ds.inputValue
    /\ suggestedItems' = ds.suggestedItems
    /\ highlightedIndex' = ds.highlightedIndex
    /\ calendarDate' = ds.calendarDate
    /\ value' = IF ds.calls = <<>> THEN value ELSE Last(ds.calls)
    /\ onChangeCalls' = ds.calls
    /\ lastEvent' = event
    /\ eventText' = text
    /\ downshiftPrevented' = prevented
    /\ UNCHANGED <<props, call, filtersVars>>

\* The cells the exploration clicks and hovers: those within MaxEdge days
\* of either end of the month.

ExploredCell(index) ==
  \/ index < MaxEdge
  \/ index >= itemCount - MaxEdge

ExploredCells == {index \in 0..(itemCount - 1) : ExploredCell(index)}

\* The user edits the text of the input (Downshift's changeInput).
inputHandleChange(ds, text) ==
  internalSetState(ds,
    [isOpen |-> TRUE, inputValue |-> text, highlightedIndex |-> Null],
    "changeInput", selectedItemOf(value))

TypeText(text) ==
  /\ ~isReadOnly
  /\ text # inputValue
  /\ Commit(inputHandleChange(pending, text), "Type", text, FALSE)

\* The cells the exploration reaches with an arrow key inside a month.
ExploredIndex(day, index) ==
  \/ index = Null
  \/ index < MaxEdge
  \/ index >= getDaysInMonth(day) - MaxEdge

\* callAll(onKeyDown, Downshift's inputHandleKeyDown): the second runs
\* unless the first set preventDownshiftDefault.
keyDown(ds, key) ==
  LET own == onKeyDown(ds, key)
  IN  [ ds |-> IF own.prevented THEN own.ds
               ELSE inputHandleKeyDown(own.ds, key),
        prevented |-> own.prevented ]

KeyDown(key) ==
  \E done \in {keyDown(pending, key)} :
    /\ InExploredMonths(done.ds.calendarDate)
    /\ \/ done.prevented
       \/ ExploredIndex(done.ds.calendarDate, done.ds.highlightedIndex)
    /\ Commit(done.ds, key, inputValue, done.prevented)

\* Focus leaves the input: onInputBlur, then Downshift's reset once the
\* consumer has rendered the value it received.
\* The value the consumer holds once onInputBlur has run.
valueAfterBlur(ds) ==
  LET own == onInputBlur(ds, inputValue)
  IN  IF own.calls = <<>> THEN value ELSE Last(own.calls)

\* rendered is props.value at the time of Downshift's reset.
inputBlur(ds, rendered) ==
  reset(onInputBlur(ds, inputValue), "blurInput", selectedItemOf(rendered))

InputBlur ==
  Commit(inputBlur(pending, valueAfterBlur(pending)), "Blur", inputValue,
         FALSE)

\* onClick of the input: openMenu, unless read-only.
InputClick ==
  /\ ~isReadOnly
  /\ Commit(openMenu(pending), "Open", <<>>, FALSE)

ToggleButtonClick ==
  /\ ~isReadOnly
  /\ Commit(toggleMenu(pending), IF isOpen THEN "Close" ELSE "Open", <<>>,
            FALSE)

InputMouseEnter ==
  Commit(IF isOpen THEN setDownshiftHighlightedIndex(pending, Null, "unknown")
         ELSE pending,
         "MouseEnter", <<>>, FALSE)

ItemMouseOut ==
  /\ menuShown
  /\ Commit(setDownshiftHighlightedIndex(pending, Null, "unknown"),
            "MouseOut", <<>>, FALSE)

\* Downshift's onMouseMove of an enabled item.
ItemMouseMove(index) ==
  /\ menuShown
  /\ ~itemDisabled(index)
  /\ index # highlightedIndex
  /\ Commit(setDownshiftHighlightedIndex(pending, index, "itemMouseEnter"),
            "MouseMove", <<>>, FALSE)

\* Downshift's onClick of an enabled item.
ItemClick(index) ==
  /\ menuShown
  /\ ~itemDisabled(index)
  /\ Commit(selectItem(pending, itemAt(index), "clickItem"), "Click", <<>>,
            FALSE)

\* onClear of the CalendarBody, offered while there is a selection.
ClearClick ==
  /\ ~isReadOnly
  /\ value # EmptyString
  /\ Commit(clearSelection(pending), "Clear", <<>>, FALSE)

HeaderClick(event, amount) ==
  LET done == jumpMonth(pending, amount, 0)
  IN  /\ menuShown
      /\ InExploredMonths(done.calendarDate)
      /\ Commit(done, event, <<>>, FALSE)

PrevMonthClick == HeaderClick("PrevMonth", -1)
NextMonthClick == HeaderClick("NextMonth", 1)
PrevYearClick == HeaderClick("PrevYear", -12)
NextYearClick == HeaderClick("NextYear", 12)

TodayClick ==
  /\ menuShown
  /\ Commit(showToday(pending), "Today", <<>>, FALSE)

\* ------------------------------------------------------------------------
\* Specification
\* ------------------------------------------------------------------------
\* No function of calendar-utils is called on its own.
NoCall == [name |-> "none", args |-> <<>>, applied |-> FALSE, result |-> Null]

\* useState(props.value || getToday()), useState([]),
\* useState(props.value === '' ? null : getDateInMonth(props.value) - 1)
InitDerived ==
  /\ calendarDate = (IF value = EmptyString THEN getToday ELSE value)
  /\ suggestedItems = <<>>
  /\ highlightedIndex =
       (IF value = EmptyString THEN Null ELSE getDateInMonth(value) - 1)
  /\ isOpen = FALSE
  /\ inputValue = itemToString(selectedItemOf(value), locale)
  /\ lastEvent = "Mount"
  /\ eventText = <<>>
  /\ onChangeCalls = <<>>
  /\ downshiftPrevented = FALSE

\* The initial state for the ranges and values of the exploration.
InitState ==
  /\ \E range \in RangeConfigs : minValue = range[1] /\ maxValue = range[2]
  /\ value \in {v \in {EmptyString, getToday} :
                  v = EmptyString \/ getIsDateInRange(v, minValue, maxValue)}
  /\ InitDerived
  /\ call = NoCall
  /\ FiltersUnmounted

Init ==
  /\ isReadOnly = FALSE
  /\ isDisabled = FALSE
  /\ hasOnChange = TRUE
  /\ appearance = "default"
  /\ locale = "en"
  /\ InitState

Next ==
  \/ \E text \in TypedTexts : TypeText(text)
  \/ \E key \in {"Enter", "ArrowDown", "ArrowUp"} : KeyDown(key)
  \/ InputBlur
  \/ InputClick
  \/ ToggleButtonClick
  \/ InputMouseEnter
  \/ ItemMouseOut
  \/ \E index \in ExploredCells : ItemMouseMove(index)
  \/ \E index \in ExploredCells : ItemClick(index)
  \/ ClearClick
  \/ PrevMonthClick
  \/ NextMonthClick
  \/ PrevYearClick
  \/ NextYearClick
  \/ TodayClick

Spec == Init /\ [][Next]_vars

\* ------------------------------------------------------------------------
\* Specification with a change of locale
\* ------------------------------------------------------------------------
Locales == {"en", "de"}

\* intl.locale changes: DateInput renders again and keeps its useState
\* values (lines 147-151); Downshift, keyed by the locale (line 225), is
\* mounted anew with its initial state: the menu closed and the text of the
\* selected item.
LocaleChange(newLocale) ==
  /\ newLocale # locale
  /\ locale' = newLocale
  /\ isOpen' = FALSE
  /\ inputValue' = itemToString(selectedItemOf(value), newLocale)
  /\ lastEvent' = "LocaleChange"
  /\ eventText' = <<>>
  /\ onChangeCalls' = <<>>
  /\ downshiftPrevented' = FALSE
  /\ UNCHANGED <<value, minValue, maxValue, isReadOnly, isDisabled,
                 hasOnChange, appearance,
                 calendarDate, suggestedItems, highlightedIndex, call,
                 filtersVars>>

NextLocale ==
  \/ Next
  \/ \E newLocale \in Locales : LocaleChange(newLocale)

\* The locale changes in a DateInput without minValue and maxValue.
InitLocale ==
  /\ Init
  /\ minValue = EmptyString
  /\ maxValue = EmptyString

SpecLocale == InitLocale /\ [][NextLocale]_vars

\* ------------------------------------------------------------------------
\* Specification over the props appearance, isReadOnly and isDisabled
\* ------------------------------------------------------------------------
Appearances == {"default", "filter"}

\* A DateInput of either appearance, read-only or not, disabled or not,
\* without minValue and maxValue.
InitAppearance ==
  /\ isReadOnly \in BOOLEAN
  /\ isDisabled \in BOOLEAN
  /\ hasOnChange = TRUE
  /\ appearance \in Appearances
  /\ locale = "en"
  /\ InitState
  /\ minValue = EmptyString
  /\ maxValue = EmptyString

SpecAppearance == InitAppearance /\ [][Next]_vars

\* ------------------------------------------------------------------------
\* Specification of a DateInput without onChange
\* ------------------------------------------------------------------------
InitNoOnChange ==
  /\ isReadOnly = FALSE
  /\ isDisabled = FALSE
  /\ hasOnChange = FALSE
  /\ appearance = "default"
  /\ locale = "en"
  /\ InitState

SpecNoOnChange == InitNoOnChange /\ [][Next]_vars

\* ------------------------------------------------------------------------
\* Specification of the calendar of each month and locale
\* ------------------------------------------------------------------------
\* The values of the exploration: the first and the last day of each month.
CalendarValues ==
  { v \in { MkDate(y, m, d) : y \in FirstYear..(FirstYear + MaxYears - 1),
                              m \in 1..12, d \in 1..31 } :
      \/ getDateInMonth(v) = 1
      \/ getDateInMonth(v) = DaysIn(YearOf(v), MonthOf(v)) }

InitCalendar ==
  /\ isReadOnly = FALSE
  /\ isDisabled = FALSE
  /\ hasOnChange = TRUE
  /\ appearance = "default"
  /\ locale \in Locales
  /\ minValue = EmptyString
  /\ maxValue = EmptyString
  /\ value \in CalendarValues
  /\ InitDerived
  /\ call = NoCall
  /\ FiltersUnmounted

NextCalendar ==
  \/ \E newLocale \in Locales : LocaleChange(newLocale)
  \/ ToggleButtonClick
  \/ TodayClick

SpecCalendar == InitCalendar /\ [][NextCalendar]_vars

\* ------------------------------------------------------------------------
\* Specification of the functions of calendar-utils, each called on its own:
\* the initial state draws the function and its arguments, the action
\* applies the function.
\* ------------------------------------------------------------------------
\* The days of the exploration: the first day and the last days of each month
\* of the years from FirstYear - 1 on.
UtilDates ==
  { v \in { MkDate(y, m, d) : y \in (FirstYear - 1)..(FirstYear + MaxYears - 1),
                              m \in 1..12, d \in {1, 28, 29, 30, 31} } :
      IsRealDate(YearOf(v), MonthOf(v), getDateInMonth(v)) }

\* The items and bounds of the range checks of the exploration.
RangeDates ==
  { MkDate(FirstYear, 1, 30), MkDate(FirstYear, 1, 31),
    MkDate(FirstYear, 2, 1), MkDate(FirstYear, 2, 2) }

UtilCall(name, args) ==
  [name |-> name, args |-> args, applied |-> FALSE, result |-> Null]

InitUtils ==
  /\ isReadOnly = FALSE
  /\ isDisabled = FALSE
  /\ hasOnChange = TRUE
  /\ appearance = "default"
  /\ locale = "en"
  /\ minValue = EmptyString
  /\ maxValue = EmptyString
  /\ value = EmptyString
  /\ InitDerived
  /\ FiltersUnmounted
  /\ \/ \E day \in UtilDates, amount \in (-MaxAmount)..MaxAmount :
          call = UtilCall("changeMonth", <<day, amount>>)
     \/ \E item \in RangeDates \cup {EmptyString, Null},
           min \in RangeDates \cup {EmptyString},
           max \in RangeDates \cup {EmptyString} :
          call = UtilCall("getIsDateInRange", <<item, min, max>>)
     \/ \E day \in UtilDates, textLocale \in Locales :
          call = UtilCall("parseInputToDate", <<day, textLocale>>)

Apply(result) ==
  /\ ~call.applied
  /\ call' = [call EXCEPT !.applied = TRUE, !.result = result]
  /\ UNCHANGED <<dateInputVars, filtersVars>>

\* changeMonth(calendarDate, amount), as jumpMonth calls it (line 204).
ApplyChangeMonth ==
  /\ call.name = "changeMonth"
  /\ Apply(changeMonth(call.args[1], call.args[2]))

\* getIsDateInRange(date, props.minValue, props.maxValue) (line 216).
ApplyGetIsDateInRange ==
  /\ call.name = "getIsDateInRange"
  /\ Apply(getIsDateInRange(call.args[1], call.args[2], call.args[3]))

\* parseInputToDate of the text createItemToString(locale) gives the day
\* (lines 215, 227).
ApplyParseInputToDate ==
  /\ call.name = "parseInputToDate"
  /\ Apply(parseInputToDate(itemToString(call.args[1], call.args[2]),
                            call.args[2]))

NextUtils ==
  \/ ApplyChangeMonth
  \/ ApplyGetIsDateInRange
  \/ ApplyParseInputToDate

SpecUtils == InitUtils /\ [][NextUtils]_vars

\* ------------------------------------------------------------------------
\* The Filters component (src/unnamed/part_000)
\* ------------------------------------------------------------------------
AllFilterKeys == <<"a", "b", "c", "d">>

\* The keys of the exploration.
ExploredFilterKeys == {AllFilterKeys[i] : i \in 1..MaxFilters}

IsIn(x, seq) == \E i \in 1..Len(seq) : seq[i] = x

\* Array.prototype.filter with the test `other !== key`
Without(seq, key) == SelectSeq(seq, LAMBDA other : other # key)

\* Array.from(new Set(seq)): the first occurrence of each element.
RECURSIVE Distinct(_)
Distinct(seq) ==
  IF seq = <<>> THEN <<>>
  ELSE LET front == Distinct(SubSeq(seq, 1, Len(seq) - 1))
           last == seq[Len(seq)]
       IN  IF IsIn(last, front) THEN front ELSE Append(front, last)

\* The orders of seq.
Orders(seq) ==
  LET n == Len(seq)
  IN  { [i \in 1..n |-> seq[p[i]]] :
          p \in {q \in [1..n -> 1..n] : \A i, j \in 1..n : i # j => q[i] # q[j]} }

\* filters.map((f) => f.key)
keysOf(fs) == [i \in 1..Len(fs) |-> fs[i].key]

\* filters.filter(({isPersistent}) => isPersistent).map((f) => f.key)
persistedKeysOf(fs) == keysOf(SelectSeq(fs, LAMBDA f : f.isPersistent))

persistedFilterKeys == persistedKeysOf(filters)

\* visibleFiltersFromProps.map(({key}) => key) before the sort: the
\* persistent filters and those with applied values.
visibleKeysOf(fs, applied) ==
  keysOf(SelectSeq(fs, LAMBDA f : f.isPersistent \/ IsIn(f.key, applied)))

\* The sort of visibleFiltersFromProps compares with a function of its first
\* argument alone: the order it leaves depends on the engine's sort.
visibleFiltersFromProps(fs, applied) == Orders(visibleKeysOf(fs, applied))

\* The values of props.filters of the exploration: each explored key absent,
\* a filter or a persistent filter, in the order of the keys.
RECURSIVE FilterListsUpTo(_)
FilterListsUpTo(n) ==
  IF n = 0 THEN {<<>>}
  ELSE LET shorter == FilterListsUpTo(n - 1)
       IN  shorter
             \cup {Append(fs, [key |-> AllFilterKeys[n], isPersistent |-> p]) :
                     fs \in shorter, p \in BOOLEAN}

FilterLists == FilterListsUpTo(MaxFilters)

\* The values of props.appliedFilters for props.filters: applied filters
\* have their filter in props.filters.
AppliedLists(fs) ==
  {keysOf(sub) : sub \in {s \in FilterLists :
                            \A i \in 1..Len(s) : IsIn(s[i].key, keysOf(fs))}}

\* The first render (lines 226-264), its effect not yet run.
InitFilters ==
  /\ isReadOnly = FALSE
  /\ isDisabled = FALSE
  /\ hasOnChange = TRUE
  /\ appearance = "default"
  /\ locale = "en"
  /\ minValue = EmptyString
  /\ maxValue = EmptyString
  /\ value = EmptyString
  /\ InitDerived
  /\ call = NoCall
  /\ filters \in FilterLists
  /\ appliedFilters \in AppliedLists(filters)
  /\ localVisibleFilters \in visibleFiltersFromProps(filters, appliedFilters)
  /\ persistedFiltersRef = persistedFilterKeys
  /\ showFilterControls \in BOOLEAN
  /\ effectPending = TRUE
  /\ filtersEvent = "Mount"
  /\ filterCalls = <<>>

\* The parent renders Filters with new props (lines 252-303): the list is
\* set anew when the number of persistent filters has changed; the effect
\* follows.
PropsChange(newFilters, newApplied) ==
  /\ ~effectPending
  /\ filters' = newFilters
  /\ appliedFilters' = newApplied
  /\ IF Len(persistedFiltersRef) # Len(persistedKeysOf(newFilters))
       THEN /\ localVisibleFilters'
                 \in visibleFiltersFromProps(newFilters, newApplied)
            /\ persistedFiltersRef' = persistedKeysOf(newFilters)
       ELSE UNCHANGED <<localVisibleFilters, persistedFiltersRef>>
  /\ effectPending' = TRUE
  /\ filtersEvent' = "PropsChange"
  /\ filterCalls' = <<>>
  /\ UNCHANGED <<showFilterControls, dateInputVars, call>>

\* An updater that keeps only the keys required by the props.
syncVisibleFiltersRequiredOnly(visible, fs, applied) ==
  LET allFilterKeys == keysOf(fs)
      requiredVisibleKeys == Distinct(persistedKeysOf(fs) \o applied)
  IN  SelectSeq(requiredVisibleKeys, LAMBDA key : IsIn(key, allFilterKeys))

\* The updater of the effect (lines 283-293) for the list visible, with the
\* props of the render the effect belongs to.
syncVisibleFilters(visible, fs, applied) ==
  LET allFilterKeys == keysOf(fs)
      requiredVisibleKeys == Distinct(persistedKeysOf(fs) \o applied)
      combinedKeys == Distinct(visible \o requiredVisibleKeys)
  IN  SelectSeq(combinedKeys, LAMBDA key : IsIn(key, allFilterKeys))

\* useEffect(..., [appliedFilters, filters]) (lines 266-297)
RunEffect ==
  /\ effectPending
  /\ localVisibleFilters'
       = syncVisibleFilters(localVisibleFilters, filters, appliedFilters)
  /\ persistedFiltersRef' = persistedFilterKeys
  /\ effectPending' = FALSE
  /\ UNCHANGED <<filters, appliedFilters, showFilterControls, filtersEvent,
                 filterCalls,
                 dateInputVars, call>>

\* An event of Filters that changes neither props nor the effect's
\* dependencies; calls are the callbacks of props it calls, each with the
\* key of the filter it belongs to.
FiltersEvent(event, visible, shown, calls) ==
  /\ ~effectPending
  /\ localVisibleFilters' = visible
  /\ showFilterControls' = shown
  /\ filtersEvent' = event
  /\ filterCalls' = calls
  /\ UNCHANGED <<filters, appliedFilters, persistedFiltersRef, effectPending,
                 dateInputVars, call>>

\* onClick of the Filters button (lines 234-236)
FiltersClick ==
  FiltersEvent("FiltersClick", localVisibleFilters, ~showFilterControls, <<>>)

\* onClick of the add filter button (lines 401-406), onAddFilterRequest
\* being given.
AddFilterClick ==
  FiltersEvent("AddFilterClick", localVisibleFilters, TRUE,
               << <<"onAddFilterRequest", "">> >>)

\* A removeFilter that drops the last visible filter, whatever the key.
removeFilterLast(visible, filterKey) == SubSeq(visible, 1, Len(visible) - 1)

\* removeFilter (lines 305-310)
removeFilter(visible, filterKey) == Without(visible, filterKey)

\* onChange of the SelectInput (lines 427-433): the list is the value of the
\* select.
selectOnChange(selected) == selected

\* The user ticks or unticks the option of a filter in the select, whose
\* value is localVisibleFilters (line 434).
SelectToggle(key) ==
  /\ IsIn(key, keysOf(filters))
  /\ FiltersEvent("Select",
       selectOnChange(IF IsIn(key, localVisibleFilters)
                        THEN Without(localVisibleFilters, key)
                        ELSE Append(localVisibleFilters, key)),
       showFilterControls, <<>>)

\* onRemoveRequest of a FilterMenu (lines 377-382); a persistent filter
\* cannot be removed (lines 100-103).
RemoveRequest(key) ==
  /\ IsIn(key, localVisibleFilters)
  /\ ~IsIn(key, persistedFilterKeys)
  /\ FiltersEvent("Remove", removeFilter(localVisibleFilters, key),
                  showFilterControls, << <<"onClearRequest", key>> >>)

\* A clear all button offered as soon as one filter is applied.
clearAllOfferedForAnyApplied == Len(appliedFilters) > 0

\* The clear all button is rendered (line 443).
clearAllOffered == Len(appliedFilters) > 1

\* onClick of the clear all button (lines 443-458)
ClearAllClick ==
  /\ clearAllOffered
  /\ FiltersEvent("ClearAll", persistedFilterKeys, showFilterControls,
                  << <<"onClearAllRequest", "">> >>)

NextFilters ==
  \/ \E newFilters \in FilterLists :
       \E newApplied \in AppliedLists(newFilters) :
         PropsChange(newFilters, newApplied)
  \/ RunEffect
  \/ FiltersClick
  \/ AddFilterClick
  \/ \E key \in ExploredFilterKeys : SelectToggle(key)
  \/ \E key \in ExploredFilterKeys : RemoveRequest(key)
  \/ ClearAllClick

SpecFilters == InitFilters /\ [][NextFilters]_vars

\* ------------------------------------------------------------------------
\* The Link component (src/packages/components/link/src/link.tsx), rendered
\* on its own: the initial state draws the props, the action renders.
\* ------------------------------------------------------------------------
\* A DateInput to which nothing happens.
DateInputIdle ==
  /\ isReadOnly = FALSE
  /\ isDisabled = FALSE
  /\ hasOnChange = TRUE
  /\ appearance = "default"
  /\ locale = "en"
  /\ minValue = EmptyString
  /\ maxValue = EmptyString
  /\ value = EmptyString
  /\ InitDerived

\* The props of the exploration.  isExternal and tone are "undefined" when
\* not given; to is the typeof of props.to, a string or a LocationDescriptor
\* object; intlMessage and children tell whether each is given.
LinkProps ==
  [ isExternal : {"true", "false", "undefined"},
    to : {"string", "object"},
    tone : {"primary", "inverted", "secondary", "undefined"},
    intlMessage : BOOLEAN,
    children : BOOLEAN ]

\* warnIfMissingContent: the number of warnings logged; warning() logs and
\* does not throw.
warnIfMissingContent(p) ==
  IF p.intlMessage \/ p.children THEN 0 ELSE 2

\* Link without the check of `to`.
LinkUnchecked(p) ==
  LET isExternal == p.isExternal = "true"
  IN  IF isExternal
        THEN [error |-> FALSE, element |-> "a", target |-> "_blank",
              warnings |-> warnIfMissingContent(p)]
        ELSE [error |-> FALSE, element |-> "ReactRouterLink",
              target |-> "none", warnings |-> warnIfMissingContent(p)]

\* Link (lines 134-178): isExternal = false when not given.
Link(p) ==
  LET isExternal == p.isExternal = "true"
  IN  IF isExternal
        THEN IF p.to # "string"
               THEN [error |-> TRUE, element |-> "none", target |-> "none",
                     warnings |-> warnIfMissingContent(p)]
               ELSE [error |-> FALSE, element |-> "a", target |-> "_blank",
                     warnings |-> warnIfMissingContent(p)]
        ELSE [error |-> FALSE, element |-> "ReactRouterLink",
              target |-> "none", warnings |-> warnIfMissingContent(p)]

InitLink ==
  /\ DateInputIdle
  /\ FiltersUnmounted
  /\ \E p \in LinkProps : call = UtilCall("Link", p)

RenderLink ==
  /\ call.name = "Link"
  /\ Apply(Link(call.args))

NextLink == RenderLink

SpecLink == InitLink /\ [][NextLink]_vars

\* ------------------------------------------------------------------------
\* The MoneyField component (src/unnamed/part_001), rendered on its own: the
\* initial state draws the props, the action renders.
\* ------------------------------------------------------------------------
\* The values of an errors or warnings object: one truth value for each key.
FieldFlagValues ==
  { <<>>, <<FALSE>>, <<TRUE>>, <<FALSE, FALSE>>, <<FALSE, TRUE>>,
    <<TRUE, FALSE>>, <<TRUE, TRUE>> }

\* props.errors and props.warnings: not given, or an object.
FieldFlags ==
  {[given |-> FALSE, values |-> <<>>]}
    \cup [given : {TRUE}, values : FieldFlagValues]

\* props.touched: not given, or an object; a key not given reads as false.
TouchedValues ==
  {[given |-> FALSE, amount |-> FALSE, currencyCode |-> FALSE]}
    \cup [given : {TRUE}, amount : BOOLEAN, currencyCode : BOOLEAN]

MoneyFieldProps ==
  [touched : TouchedValues, errors : FieldFlags, warnings : FieldFlags]

\* MoneyInput.isTouched(touched): both fields have been touched.
isTouched(touched) ==
  touched.given /\ touched.amount /\ touched.currencyCode

\* errors && Object.values(errors).some(Boolean), as a truth value
hasErrors(errors) ==
  errors.given /\ \E i \in 1..Len(errors.values) : errors.values[i]

\* warnings && Object.values(warnings).some(Boolean), as a truth value
hasWarnings(warnings) ==
  warnings.given /\ \E i \in 1..Len(warnings.values) : warnings.values[i]

\* A render that does not look at touched.
renderMoneyFieldUntouched(p) ==
  [ hasError |-> hasErrors(p.errors),
    ariaInvalid |-> hasErrors(p.errors),
    errorsVisible |-> hasErrors(p.errors),
    hasWarning |-> hasWarnings(p.warnings),
    warningsVisible |-> hasWarnings(p.warnings) ]

\* MoneyField.render (lines 254-340): what MoneyInput, FieldErrors and
\* FieldWarnings receive.
renderMoneyField(p) ==
  LET hasError == isTouched(p.touched) /\ hasErrors(p.errors)
      hasWarning == isTouched(p.touched) /\ hasWarnings(p.warnings)
  IN  [ hasError |-> hasError,
        ariaInvalid |-> hasError,
        errorsVisible |-> hasError,
        hasWarning |-> hasWarning,
        warningsVisible |-> hasWarning ]

InitMoneyField ==
  /\ DateInputIdle
  /\ FiltersUnmounted
  /\ \E p \in MoneyFieldProps : call = UtilCall("MoneyField", p)

RenderMoneyField ==
  /\ call.name = "MoneyField"
  /\ Apply(renderMoneyField(call.args))

NextMoneyField == RenderMoneyField

SpecMoneyField == InitMoneyField /\ [][NextMoneyField]_vars

\* ------------------------------------------------------------------------
\* getFilterOptions of Filters (src/unnamed/part_000, lines 188-220), called
\* on its own: the initial state draws the arguments, the action applies it.
\* ------------------------------------------------------------------------
\* The group keys of the exploration; GroupKeys[3] is the key of no group.
GroupKeys == <<"g1", "g2", "g3">>

\* The values of the argument filters: each explored key absent or a filter
\* with no groupKey, or with one of the group keys.
RECURSIVE GroupedFilterListsUpTo(_)
GroupedFilterListsUpTo(n) ==
  IF n = 0 THEN {<<>>}
  ELSE LET shorter == GroupedFilterListsUpTo(n - 1)
       IN  shorter
             \cup {Append(fs, [key |-> AllFilterKeys[n], groupKey |-> g]) :
                     fs \in shorter,
                     g \in {"", GroupKeys[1], GroupKeys[2], GroupKeys[3]}}

\* The values of the argument filterGroups: not given, or the keys of the
\* groups.
FilterGroupLists ==
  {[given |-> FALSE, groups |-> <<>>]}
    \cup [ given : {TRUE},
           groups : { <<>>, <<GroupKeys[1]>>, <<GroupKeys[2]>>,
                      <<GroupKeys[1], GroupKeys[2]>>,
                      <<GroupKeys[2], GroupKeys[1]>> } ]

\* An option of the select (value) and an option group (key, options).
formattedOption(filter) ==
  [kind |-> "option", key |-> filter.key, options |-> <<>>]

optionGroup(groupKey) ==
  [kind |-> "group", key |-> groupKey, options |-> <<>>]

\* A step of the reduce that leaves out a filter whose group is not found.
addFilterOptionGroupedOnly(filterOptions, filter, groupsGiven) ==
  LET found == {i \in 1..Len(filterOptions) :
                  /\ filterOptions[i].kind = "group"
                  /\ filterOptions[i].key = filter.groupKey}
      first == CHOOSE i \in found : \A j \in found : i <= j
  IN  IF filter.groupKey # "" /\ groupsGiven
        THEN IF found # {}
               THEN [filterOptions EXCEPT
                       ![first].options = Append(@, filter.key)]
               ELSE filterOptions
        ELSE <<formattedOption(filter)>> \o filterOptions

\* The callback of filters.reduce (lines 202-218).
addFilterOption(filterOptions, filter, groupsGiven) ==
  LET found == {i \in 1..Len(filterOptions) :
                  /\ filterOptions[i].kind = "group"
                  /\ filterOptions[i].key = filter.groupKey}
      first == CHOOSE i \in found : \A j \in found : i <= j
  IN  IF filter.groupKey # "" /\ groupsGiven /\ found # {}
        THEN [filterOptions EXCEPT ![first].options = Append(@, filter.key)]
        ELSE <<formattedOption(filter)>> \o filterOptions

RECURSIVE reduceFilterOptions(_, _, _)
reduceFilterOptions(fs, filterOptions, groupsGiven) ==
  IF fs = <<>> THEN filterOptions
  ELSE reduceFilterOptions(Tail(fs),
                           addFilterOption(filterOptions, Head(fs), groupsGiven),
                           groupsGiven)

getFilterOptions(fs, filterGroups) ==
  reduceFilterOptions(
    fs,
    IF filterGroups.given
      THEN [i \in 1..Len(filterGroups.groups) |->
              optionGroup(filterGroups.groups[i])]
      ELSE <<>>,
    filterGroups.given)

InitFilterOptions ==
  /\ DateInputIdle
  /\ FiltersUnmounted
  /\ \E fs \in GroupedFilterListsUpTo(MaxFilters) :
       \E filterGroups \in FilterGroupLists :
         call = UtilCall("getFilterOptions",
                         [filters |-> fs, filterGroups |-> filterGroups])

ApplyGetFilterOptions ==
  /\ call.name = "getFilterOptions"
  /\ Apply(getFilterOptions(call.args.filters, call.args.filterGroups))

NextFilterOptions == ApplyGetFilterOptions

SpecFilterOptions == InitFilterOptions /\ [][NextFilterOptions]_vars

\* ------------------------------------------------------------------------
\* The TranslationInput component (src/packages/components/inputs/
\* localized-multiline-text-input/src/translation-input.tsx) with its parent.
\* The record call holds the instance: args are its props and state, result
\* the event handled last with the callbacks of props it called.
\* ------------------------------------------------------------------------
\* isCollapsed, whether onFocus and onToggle are given, whether the parent
\* answers onToggle by rendering the other value of isCollapsed, and the
\* state inputHasSeveralRows (line 97).
TranslationInputs ==
  [ isCollapsed : BOOLEAN, hasOnFocus : BOOLEAN, hasOnToggle : BOOLEAN,
    parentToggles : BOOLEAN, isDisabled : BOOLEAN,
    inputHasSeveralRows : BOOLEAN ]

\* A handleFocus that calls onToggle whether collapsed or not.
handleFocusToggling(p) ==
  (IF p.hasOnToggle THEN <<"onToggle">> ELSE <<>>)
    \o (IF p.hasOnFocus THEN <<"onFocus">> ELSE <<>>)

\* handleFocus (lines 131-135): the callbacks called, in their order.
handleFocus(p) ==
  (IF p.isCollapsed /\ p.hasOnToggle THEN <<"onToggle">> ELSE <<>>)
    \o (IF p.hasOnFocus THEN <<"onFocus">> ELSE <<>>)

\* The instance once the event has been handled and the parent has rendered.
TranslationEvent(event, calls, severalRows) ==
  LET p == call.args
      toggled == p.parentToggles /\ \E i \in 1..Len(calls) : calls[i] = "onToggle"
  IN  /\ call.name = "TranslationInput"
      /\ call' = [ name |-> "TranslationInput",
                   args |-> [p EXCEPT
                               !.isCollapsed = IF toggled THEN ~@ ELSE @,
                               !.inputHasSeveralRows = severalRows],
                   applied |-> TRUE,
                   result |-> [ event |-> event,
                                wasCollapsed |-> p.isCollapsed,
                                calls |-> calls ] ]
      /\ UNCHANGED <<dateInputVars, filtersVars>>

\* onFocus of the MultilineInput (line 179); a disabled input takes no focus.
TranslationFocus ==
  /\ call.name = "TranslationInput"
  /\ ~call.args.isDisabled
  /\ TranslationEvent("Focus", handleFocus(call.args),
                      call.args.inputHasSeveralRows)

\* onClick of the collapse button (lines 228-252), rendered while expanded
\* with several rows.
TranslationToggleClick ==
  /\ call.name = "TranslationInput"
  /\ ~call.args.isCollapsed
  /\ call.args.inputHasSeveralRows
  /\ ~call.args.isDisabled
  /\ TranslationEvent("ToggleClick",
                      IF call.args.hasOnToggle THEN <<"onToggle">> ELSE <<>>,
                      call.args.inputHasSeveralRows)

\* handleHeightChange (lines 99-106)
TranslationHeightChange(rowCount) ==
  /\ call.name = "TranslationInput"
  /\ TranslationEvent("HeightChange", <<>>, rowCount > 1)

InitTranslationInput ==
  /\ DateInputIdle
  /\ FiltersUnmounted
  /\ \E p \in TranslationInputs : call = UtilCall("TranslationInput", p)

NextTranslationInput ==
  \/ TranslationFocus
  \/ TranslationToggleClick
  \/ \E rowCount \in 1..2 : TranslationHeightChange(rowCount)

SpecTranslationInput == InitTranslationInput /\ [][NextTranslationInput]_vars

\* ------------------------------------------------------------------------
\* Properties
\* ------------------------------------------------------------------------
InRange(date) == getIsDateInRange(date, minValue, maxValue)

\* The index is present and is the index of a day cell of day's month.
IndexesCell(index, day) ==
  /\ index # Null
  /\ index >= 0
  /\ index < getDaysInMonth(day)

\* A cell of the displayed grid is highlighted.
HighlightInGrid == IndexesCell(highlightedIndex, calendarDate)

MonthIndex(day) == YearOf(day) * 12 + MonthOf(day)

FirstDayOfNextMonth(day) ==
  IF MonthOf(day) = 12 THEN MkDate(YearOf(day) + 1, 1, 1)
  ELSE MkDate(YearOf(day), MonthOf(day) + 1, 1)

LastDayOfPreviousMonth(day) ==
  IF MonthOf(day) = 1 THEN MkDate(YearOf(day) - 1, 12, 31)
  ELSE MkDate(YearOf(day), MonthOf(day) - 1,
              DaysIn(YearOf(day), MonthOf(day) - 1))

\* The text is a real date outside [minValue, maxValue].
OutOfRangeDateText(text) ==
  /\ parseInputToDate(text, locale) # EmptyString
  /\ ~InRange(parseInputToDate(text, locale))

\* The text is not blank and yields no date that may be emitted.
InvalidText(text) ==
  /\ Len(text) > 0
  /\ \/ parseInputToDate(text, locale) = EmptyString
     \/ ~InRange(parseInputToDate(text, locale))

\* C1 as stated: onChange is called only by Commit (a cell is clicked, Enter)
\* and Commit-empty (Enter on blank text, the clear action); no other
\* transition, Blur included, calls it.
C1_OnlyCommitCallsOnChange ==
  onChangeCalls # <<>> => lastEvent \in {"Click", "Enter", "Clear"}

\* C1 amended: onChange is called only by Commit, Commit-empty and Blur; Type,
\* the arrow keys, mouse enter and out, the header buttons, Open and Close
\* never call it.
C1_OnlyCommitOrBlurCallsOnChange ==
  onChangeCalls # <<>> => lastEvent \in {"Click", "Enter", "Clear", "Blur"}

C1_Witness ==
  /\ lastEvent = "Blur"
  /\ onChangeCalls # <<>>
  /\ Last(onChangeCalls) # EmptyString

\* C2: a Type event whose text is a real date out of range displays that
\* date's month and leaves no cell highlighted, and an Enter that follows
\* does not pass that date to onChange.
C2_TypedOutOfRangeDate ==
  [][ /\ (lastEvent' = "Type" /\ OutOfRangeDateText(eventText'))
           => /\ MonthIndex(calendarDate')
                   = MonthIndex(parseInputToDate(eventText', locale))
              /\ ~IndexesCell(highlightedIndex', calendarDate')
      /\ (lastEvent = "Type" /\ OutOfRangeDateText(eventText)
            /\ lastEvent' = "Enter")
           => \A i \in 1..Len(onChangeCalls') :
                onChangeCalls'[i] # parseInputToDate(eventText, locale)
    ]_vars

\* C3: a present highlighted index is an index of a day cell of the displayed
\* month: 0 <= highlightedIndex < daysInMonth(displayed month).
C3_HighlightIndexesDisplayedGrid ==
  highlightedIndex # Null =>
    (highlightedIndex >= 0 /\ highlightedIndex < getDaysInMonth(calendarDate))

\* C4: every date passed to onChange lies within [minValue, maxValue], for
\* each bound that is set.
C4_EmittedDatesInRange ==
  \A i \in 1..Len(onChangeCalls) :
    onChangeCalls[i] # EmptyString =>
      /\ (minValue = EmptyString \/ onChangeCalls[i] >= minValue)
      /\ (maxValue = EmptyString \/ onChangeCalls[i] <= maxValue)

C4_Witness ==
  /\ lastEvent = "Click"
  /\ minValue # EmptyString
  /\ maxValue # EmptyString
  /\ onChangeCalls # <<>>
  /\ Last(onChangeCalls) # EmptyString

\* C5: the day a highlighted cell denotes in the displayed month lies within
\* [minValue, maxValue].
C5_HighlightedDayInRange ==
  HighlightInGrid => InRange(itemAt(highlightedIndex))

\* C6: an arrow key whose candidate day, the day after (ArrowDown) or before
\* (ArrowUp) the highlighted cell, fails the range check changes neither the
\* displayed month nor the highlight nor the suggestions, suppresses the
\* default key handling and does not call onChange.
C6_BlockedArrowIsNoOp ==
  [][ ( /\ HighlightInGrid
        /\ \/ /\ lastEvent' = "ArrowDown"
              /\ ~InRange(getNextDay(itemAt(highlightedIndex)))
           \/ /\ lastEvent' = "ArrowUp"
              /\ ~InRange(getPreviousDay(itemAt(highlightedIndex))) )
      => /\ calendarDate' = calendarDate
         /\ highlightedIndex' = highlightedIndex
         /\ suggestedItems' = suggestedItems
         /\ downshiftPrevented'
         /\ onChangeCalls' = <<>>
    ]_vars

C6_Witness ==
  /\ lastEvent = "ArrowDown"
  /\ downshiftPrevented
  /\ HighlightInGrid
  /\ InRange(itemAt(highlightedIndex))
  /\ ~InRange(getNextDay(itemAt(highlightedIndex)))

\* C7: ArrowDown with the highlight on the last day of the displayed month
\* moves the displayed month forward by exactly one month and highlights
\* index 0 when the first day of the next month is in range, and changes
\* nothing when it is not.
C7_ArrowDownOnLastDay ==
  [][ (lastEvent' = "ArrowDown"
         /\ highlightedIndex = getDaysInMonth(calendarDate) - 1)
      => IF InRange(FirstDayOfNextMonth(calendarDate))
           THEN /\ MonthIndex(calendarDate') = MonthIndex(calendarDate) + 1
                /\ highlightedIndex' = 0
           ELSE UNCHANGED <<calendarDate, highlightedIndex, suggestedItems,
                            isOpen, inputValue, value>>
    ]_vars

C7_Witness ==
  /\ lastEvent = "ArrowDown"
  /\ downshiftPrevented
  /\ highlightedIndex = 0
  /\ MonthOf(calendarDate) = 2
  /\ InRange(itemAt(0))
  /\ InRange(itemAt(1))

\* C8: ArrowUp with the highlight at index 0 moves the displayed month back
\* by exactly one month and highlights the last index of that month when
\* the last day of the previous month is in range, and changes nothing when
\* it is not.
C8_ArrowUpOnFirstDay ==
  [][ (lastEvent' = "ArrowUp" /\ highlightedIndex = 0)
      => IF InRange(LastDayOfPreviousMonth(calendarDate))
           THEN /\ MonthIndex(calendarDate') = MonthIndex(calendarDate) - 1
                /\ highlightedIndex' =
                     getDateInMonth(LastDayOfPreviousMonth(calendarDate)) - 1
           ELSE UNCHANGED <<calendarDate, highlightedIndex, suggestedItems,
                            isOpen, inputValue, value>>
    ]_vars

C8_Witness ==
  /\ lastEvent = "ArrowUp"
  /\ downshiftPrevented
  /\ MonthOf(calendarDate) = 1
  /\ highlightedIndex = 30
  /\ InRange(itemAt(30))
  /\ InRange(itemAt(29))

\* C9: a Blur whose text is not blank and is no date, or is a date out of
\* range, does not call onChange; neither does a Type event, so the value
\* the consumer holds is still the one committed before.
C9_BlurWithInvalidTextKeepsValue ==
  [][ /\ (lastEvent' = "Blur" /\ InvalidText(eventText'))
           => (onChangeCalls' = <<>> /\ value' = value)
      /\ lastEvent' = "Type" => (onChangeCalls' = <<>> /\ value' = value)
    ]_vars

C9_Witness ==
  /\ lastEvent = "Blur"
  /\ InvalidText(eventText)
  /\ value # EmptyString
  /\ onChangeCalls = <<>>

\* C10: a Blur calls onChange exactly once, with the empty value, when the
\* text is blank, exactly once, with the date, when the text is a date in
\* range, and never more than once.
C10_BlurCallsOnChangeOnce ==
  lastEvent = "Blur" =>
    LET date == parseInputToDate(eventText, locale)
    IN  IF IsBlankAfterTrim(eventText) THEN onChangeCalls = <<EmptyString>>
        ELSE IF date # EmptyString /\ InRange(date) THEN onChangeCalls = <<date>>
        ELSE Len(onChangeCalls) <= 1


\* C11: a Type event with blank text leaves the suggestions empty and the
\* highlight absent, and an Enter that follows it calls onChange with the
\* empty value.
C11_BlankTextThenEnterCommitsEmpty ==
  [][ /\ (lastEvent' = "Type" /\ IsBlankAfterTrim(eventText'))
           => /\ suggestedItems' = <<>>
              /\ highlightedIndex' = Null
      /\ (lastEvent = "Type" /\ IsBlankAfterTrim(eventText)
            /\ lastEvent' = "Enter")
           => \E i \in 1..Len(onChangeCalls') :
                onChangeCalls'[i] = EmptyString
    ]_vars

\* The value is a real calendar day in the form YYYY-MM-DD.
IsCalendarDate(v) ==
  /\ v >= MkDate(1, 1, 1)
  /\ IsRealDate(YearOf(v), MonthOf(v), v % 100)

\* C12: every value passed to onChange is the empty string or a real
\* calendar date in the form YYYY-MM-DD; a cleared selection, null from
\* Downshift, is passed as the empty string, never as null.
C12_EmittedValuesAreEmptyOrDates ==
  \A i \in 1..Len(onChangeCalls) :
    /\ onChangeCalls[i] # Null
    /\ onChangeCalls[i] = EmptyString \/ IsCalendarDate(onChangeCalls[i])

\* The clear action has passed Downshift's null to handleChange.
C12_Witness ==
  /\ lastEvent = "Clear"
  /\ onChangeCalls = <<EmptyString>>

\* C13: after a change of locale no suggestion parsed under the previous
\* locale is left: the suggestions are empty or are the date the current
\* text yields under the new locale.
C13_LocaleChangeDropsStaleSuggestion ==
  lastEvent = "LocaleChange"
    => \/ suggestedItems = <<>>
       \/ /\ parseInputToDate(inputValue, locale) # EmptyString
          /\ suggestedItems = <<parseInputToDate(inputValue, locale)>>

SameTransition(with, without) ==
  /\ with.isOpen = without.isOpen
  /\ with.inputValue = without.inputValue
  /\ with.suggestedItems = without.suggestedItems
  /\ with.highlightedIndex = without.highlightedIndex
  /\ with.calendarDate = without.calendarDate
  /\ ~without.error
  /\ without.calls = <<>>

C16_GridIsPaddingThenDays ==
  LET count == getDaysInMonth(calendarDate)
  IN  /\ Len(calendarCells) = paddingDayCount + count
      /\ \A i \in 1..paddingDayCount : calendarCells[i].type = "spacing"
      /\ \A d \in 1..count :
           /\ calendarCells[paddingDayCount + d].type = "day"
           /\ calendarCells[paddingDayCount + d].item
                = MkDate(YearOf(calendarDate), MonthOf(calendarDate), d)

\* The grid of a February of 29 days is shown under a locale whose week
\* starts on Monday, with blank cells before day 1.
C16_Witness ==
  /\ menuShown
  /\ locale = "de"
  /\ MonthOf(calendarDate) = 2
  /\ getDaysInMonth(calendarDate) = 29
  /\ paddingDayCount > 0
  /\ Len(calendarCells) = paddingDayCount + 29

\* C17: addMonths(date, n), n of either sign, is a real calendar day of the
\* month n months from date's, its day of the month the smaller of date's
\* and the last day of that month; 2024-01-31 + 1 is 2024-02-29 and
\* 2023-01-31 + 1 is 2023-02-28.
C17_ChangeMonthClampsDay ==
  /\ (call.name = "changeMonth" /\ call.applied) =>
       LET day == call.args[1]
           amount == call.args[2]
           target == call.result
       IN  /\ IsRealDate(YearOf(target), MonthOf(target), target % 100)
           /\ MonthIndex(target) = MonthIndex(day) + amount
           /\ target % 100
                = Min(day % 100, DaysIn(YearOf(target), MonthOf(target)))
  /\ (call.name = "changeMonth" /\ call.applied
        /\ call.args = <<MkDate(2024, 1, 31), 1>>)
       => call.result = MkDate(2024, 2, 29)
  /\ (call.name = "changeMonth" /\ call.applied
        /\ call.args = <<MkDate(2023, 1, 31), 1>>)
       => call.result = MkDate(2023, 2, 28)

\* A 31st has moved back, across the turn of the year, into a month of 30
\* days.
C17_Witness ==
  /\ call.name = "changeMonth"
  /\ call.applied
  /\ call.args[2] < 0
  /\ call.args[1] % 100 = 31
  /\ YearOf(call.result) < YearOf(call.args[1])
  /\ call.result % 100 = 30

\* C18: isInRange(date, min, max) is true exactly when date is present and
\* min is absent or date >= min, and max is absent or date <= max: each
\* bound is enforced on its own and an absent date is never in range.
C18_InRangeExactly ==
  (call.name = "getIsDateInRange" /\ call.applied) =>
    LET item == call.args[1]
        min == call.args[2]
        max == call.args[3]
        present == item # EmptyString /\ item # Null
    IN  /\ call.result
             <=> /\ present
                 /\ (min = EmptyString \/ item >= min)
                 /\ (max = EmptyString \/ item <= max)
        /\ ~present => ~call.result

\* A day after max, min absent, is out of range.
C18_Witness ==
  /\ call.name = "getIsDateInRange"
  /\ call.applied
  /\ call.args[1] \in RangeDates
  /\ call.args[2] = EmptyString
  /\ call.args[3] \in RangeDates
  /\ call.args[1] > call.args[3]
  /\ ~call.result

\* C19: for every valid calendar date d, parsing the text the locale's
\* serialization gives for d, with that locale, returns d: year, month and
\* day are those of d.
C19_ParseOfSerializedDate ==
  (call.name = "parseInputToDate" /\ call.applied) =>
    /\ call.result = call.args[1]
    /\ YearOf(call.result) = YearOf(call.args[1])
    /\ MonthOf(call.result) = MonthOf(call.args[1])
    /\ call.result % 100 = call.args[1] % 100

\* A day after the 12th has made the round trip under a locale that writes
\* the day first.
C19_Witness ==
  /\ call.name = "parseInputToDate"
  /\ call.applied
  /\ call.args[2] = "de"
  /\ call.args[1] % 100 > 12
  /\ call.result = call.args[1]

\* C20: persistent filters are always visible: after every event of Filters,
\* add-filter selections, remove requests, clear-all clicks and prop changes
\* with their effect, every filter of props.filters with isPersistent set is
\* in the list of the locally visible filters.
C20_PersistentFiltersVisible ==
  ~effectPending =>
    \A i \in 1..Len(persistedFilterKeys) :
      IsIn(persistedFilterKeys[i], localVisibleFilters)

\* C21: Link raises an error exactly when isExternal is true and `to` is not
\* a string; otherwise it renders without error, an anchor that opens in a
\* new tab when isExternal, a router link when not.
C21_LinkErrorOnlyForExternalNonString ==
  (call.name = "Link" /\ call.applied) =>
    LET p == call.args
        rendered == call.result
    IN  /\ rendered.error <=> (p.isExternal = "true" /\ p.to # "string")
        /\ (~rendered.error /\ p.isExternal = "true")
             => (rendered.element = "a" /\ rendered.target = "_blank")
        /\ (~rendered.error /\ p.isExternal # "true")
             => rendered.element = "ReactRouterLink"

\* An external Link with a location object has thrown.
C21_Witness ==
  /\ call.name = "Link"
  /\ call.applied
  /\ call.args.isExternal = "true"
  /\ call.args.to = "object"
  /\ call.result.error

\* Some entry of the errors or warnings object is truthy.
SomeTruthy(flags) ==
  flags.given /\ \E i \in 1..Len(flags.values) : flags.values[i]

\* C22: MoneyField shows errors, and marks the input invalid, only when the
\* field is touched and some entry of errors is truthy, and shows warnings
\* only when the field is touched and some entry of warnings is truthy; an
\* untouched field shows neither.
C22_MoneyFieldShowsOnlyWhenTouched ==
  (call.name = "MoneyField" /\ call.applied) =>
    LET p == call.args
        shown == call.result
        touched == p.touched.given
                     /\ (p.touched.amount \/ p.touched.currencyCode)
    IN  /\ (shown.errorsVisible \/ shown.ariaInvalid \/ shown.hasError)
             => (touched /\ SomeTruthy(p.errors))
        /\ (shown.warningsVisible \/ shown.hasWarning)
             => (touched /\ SomeTruthy(p.warnings))
        /\ ~touched => (~shown.errorsVisible /\ ~shown.warningsVisible)

\* A touched field with an error and no truthy warning shows the errors
\* and not the warnings.
C22_Witness ==
  /\ call.name = "MoneyField"
  /\ call.applied
  /\ call.args.touched.amount
  /\ call.args.touched.currencyCode
  /\ call.args.warnings.given
  /\ call.result.errorsVisible
  /\ call.result.ariaInvalid
  /\ ~call.result.warningsVisible

\* C23: a Type event whose text parses to a date within range displays that
\* date's month, makes that date the only suggestion and highlights the
\* index (day of month - 1) of that date.
C23_TypedInRangeDate ==
  LET date == parseInputToDate(eventText, locale)
  IN  (lastEvent = "Type" /\ date # EmptyString /\ InRange(date)) =>
        /\ MonthIndex(calendarDate) = MonthIndex(date)
        /\ suggestedItems = <<date>>
        /\ highlightedIndex = getDateInMonth(date) - 1

\* A date of another month than the displayed one was typed while another
\* cell was highlighted and a range was set.
C23_Witness ==
  /\ lastEvent = "Type"
  /\ parseInputToDate(eventText, locale) = MkDate(FirstYear, 2, 10)
  /\ InRange(MkDate(FirstYear, 2, 10))
  /\ minValue # EmptyString
  /\ value # EmptyString
  /\ value # MkDate(FirstYear, 2, 10)
  /\ highlightedIndex = 9
  /\ calendarDate = MkDate(FirstYear, 2, 10)

\* C24: clicking Today displays the month of the current date and highlights
\* the index (day of month of today - 1), also while a typed suggestion is
\* pending.
C24_TodayHighlightsToday ==
  lastEvent = "Today" =>
    /\ MonthIndex(calendarDate) = MonthIndex(getToday)
    /\ highlightedIndex = getDateInMonth(getToday) - 1

\* The months a header button moves the displayed month by.
HeaderAmount(event) ==
  CASE event = "PrevMonth" -> -1
    [] event = "NextMonth" -> 1
    [] event = "PrevYear" -> -12
    [] event = "NextYear" -> 12

\* C25: a click on prev month, next month, prev year or next year shifts the
\* displayed month by -1, +1, -12 or +12 months, highlights index 0 and does
\* not call onChange, whatever minValue and maxValue are.
C25_HeaderButtonsShiftMonth ==
  [][ lastEvent' \in {"PrevMonth", "NextMonth", "PrevYear", "NextYear"} =>
        /\ MonthIndex(calendarDate')
             = MonthIndex(calendarDate) + HeaderAmount(lastEvent')
        /\ highlightedIndex' = 0
        /\ onChangeCalls' = <<>>
        /\ value' = value
    ]_vars

\* Next month was clicked and the month now displayed lies beyond maxValue.
C25_Witness ==
  /\ lastEvent = "NextMonth"
  /\ maxValue # EmptyString
  /\ ~InRange(MkDate(YearOf(calendarDate), MonthOf(calendarDate), 1))
  /\ highlightedIndex = 0
  /\ onChangeCalls = <<>>

\* Enter is pressed on text that is not blank while the menu is open and an
\* enabled cell of the displayed month is highlighted.
EnterOnHighlightedDate ==
  /\ ~IsBlankAfterTrim(inputValue)
  /\ isOpen
  /\ HighlightInGrid
  /\ ~itemDisabled(highlightedIndex)

\* C26: a Commit, that is a click on a day cell or Enter while a date is
\* highlighted, calls onChange exactly once, with that date, and leaves the
\* suggestion list empty.
C26_CommitCallsOnChangeOnceAndClearsSuggestions ==
  [][ /\ lastEvent' = "Click" =>
           /\ Len(onChangeCalls') = 1
           /\ \E index \in 0..(calendarItemsLength - 1) :
                onChangeCalls' = <<itemAt(index)>>
           /\ suggestedItems' = <<>>
      /\ (lastEvent' = "Enter" /\ EnterOnHighlightedDate) =>
           /\ onChangeCalls' = <<itemAt(highlightedIndex)>>
           /\ suggestedItems' = <<>>
    ]_vars

\* The last event is a Commit-empty: Enter on text that is blank after
\* trimming, or the clear action.
CommitEmptyHappened ==
  \/ lastEvent = "Clear"
  \/ lastEvent = "Enter" /\ IsBlankAfterTrim(eventText)

\* C27: a Commit-empty calls onChange with the empty value and leaves the
\* suggestion list empty and the highlight absent.
C27_CommitEmptyCallsOnChangeWithEmpty ==
  CommitEmptyHappened =>
    /\ \E i \in 1..Len(onChangeCalls) : onChangeCalls[i] = EmptyString
    /\ suggestedItems = <<>>
    /\ highlightedIndex = Null

\* C28: after every Open of the closed menu, the first after mount and every
\* later one, the highlight is the index of the selected day in the grid of
\* the displayed month when a value is selected, and absent when none is.
C28_OpenHighlightsSelectedDay ==
  [][ (~isOpen /\ lastEvent' = "Open") =>
        IF value' # EmptyString
          THEN /\ MonthIndex(calendarDate') = MonthIndex(value')
               /\ highlightedIndex' = getDateInMonth(value') - 1
          ELSE highlightedIndex' = Null
    ]_vars

\* C29: ArrowDown with the highlight at an index i that is not the last day
\* of the displayed month and whose next day is in range keeps the displayed
\* month and moves the highlight to i + 1; ArrowUp with i > 0 and the
\* previous day in range moves it to i - 1.
C29_ArrowMovesHighlightInsideMonth ==
  [][ /\ ( /\ lastEvent' = "ArrowDown"
           /\ HighlightInGrid
           /\ highlightedIndex < calendarItemsLength - 1
           /\ InRange(getNextDay(itemAt(highlightedIndex))) )
        => /\ calendarDate' = calendarDate
           /\ highlightedIndex' = highlightedIndex + 1
      /\ ( /\ lastEvent' = "ArrowUp"
           /\ HighlightInGrid
           /\ highlightedIndex > 0
           /\ InRange(getPreviousDay(itemAt(highlightedIndex))) )
        => /\ calendarDate' = calendarDate
           /\ highlightedIndex' = highlightedIndex - 1
    ]_vars

\* ArrowUp has moved the highlight from the last day of the month to the
\* day before, with a range set.
C29_Witness ==
  /\ lastEvent = "ArrowUp"
  /\ ~downshiftPrevented
  /\ minValue # EmptyString
  /\ highlightedIndex = getDaysInMonth(calendarDate) - 2
  /\ InRange(itemAt(highlightedIndex))
  /\ InRange(itemAt(highlightedIndex + 1))
  /\ isOpen

\* The events after which the displayed month is the one displayed before.
MonthKeepingEvents ==
  { "Blur", "Click", "Enter", "Clear", "Open", "Close", "MouseEnter",
    "MouseOut" }

\* C30: the displayed month changes only on prev/next month, prev/next year,
\* Today, an arrow key that crosses a month edge, or a Type event whose text
\* yields a date; Blur, Commit, Commit-empty, Open, Close, mouse enter, mouse
\* out, a Type event that yields no date and a blocked arrow key leave it
\* unchanged.
C30_DisplayedMonthFrame ==
  [][ /\ MonthIndex(calendarDate') # MonthIndex(calendarDate) =>
           \/ lastEvent' \in {"PrevMonth", "NextMonth", "PrevYear",
                              "NextYear", "Today"}
           \/ /\ lastEvent' = "ArrowDown"
              /\ NumberOf(highlightedIndex) >= calendarItemsLength - 1
              /\ MonthIndex(calendarDate') = MonthIndex(calendarDate) + 1
           \/ /\ lastEvent' = "ArrowUp"
              /\ NumberOf(highlightedIndex) <= 0
              /\ MonthIndex(calendarDate') = MonthIndex(calendarDate) - 1
           \/ /\ lastEvent' = "Type"
              /\ parseInputToDate(eventText', locale) # EmptyString
      /\ lastEvent' \in MonthKeepingEvents => calendarDate' = calendarDate
      /\ ( /\ lastEvent' = "Type"
           /\ parseInputToDate(eventText', locale) = EmptyString )
           => calendarDate' = calendarDate
      /\ ( /\ lastEvent' = "ArrowDown"
           /\ ~InRange(getNextDay(itemAt(highlightedIndex))) )
           => calendarDate' = calendarDate
      /\ ( /\ lastEvent' = "ArrowUp"
           /\ ~InRange(getPreviousDay(itemAt(highlightedIndex))) )
           => calendarDate' = calendarDate
    ]_vars

\* With no range set, ArrowDown has crossed the end of January: February is
\* displayed with its first day highlighted.
C30_Witness ==
  /\ lastEvent = "ArrowDown"
  /\ downshiftPrevented
  /\ minValue = EmptyString
  /\ maxValue = EmptyString
  /\ MonthOf(calendarDate) = 2
  /\ highlightedIndex = 0

\* C31: mouse enter over the input while the menu is open, and mouse out of a
\* day cell, make the highlight absent, keep the displayed month and the
\* suggestions and do not call onChange; mouse enter over the input while
\* the menu is closed changes nothing.
C31_MouseEnterAndOutClearHighlight ==
  [][ /\ ((lastEvent' = "MouseEnter" /\ isOpen) \/ lastEvent' = "MouseOut")
           => /\ highlightedIndex' = Null
              /\ calendarDate' = calendarDate
              /\ suggestedItems' = suggestedItems
              /\ onChangeCalls' = <<>>
              /\ value' = value
      /\ (lastEvent' = "MouseEnter" /\ ~isOpen)
           => /\ UNCHANGED <<calendarDate, suggestedItems, highlightedIndex,
                             isOpen, inputValue, value>>
              /\ onChangeCalls' = <<>>
    ]_vars

\* The mouse has left a day cell while a typed suggestion is pending.
C31_Witness ==
  /\ lastEvent = "MouseOut"
  /\ isOpen
  /\ highlightedIndex = Null
  /\ suggestedItems # <<>>
  /\ InRange(suggestedItems[1])

\* The handler has not thrown and every part of the state it leaves has a
\* value of its kind: a real day is displayed, the highlight is absent or a
\* number (an index, or the -1 by which Downshift tells that no item can be
\* highlighted), the suggestions and the values passed to onChange are real
\* days or, for the latter, the empty string.
DefinedState(ds) ==
  /\ ~ds.error
  /\ ds.isOpen \in BOOLEAN
  /\ IsCalendarDate(ds.calendarDate)
  /\ (ds.highlightedIndex = Null \/ ds.highlightedIndex >= -1)
  /\ Len(ds.suggestedItems) <= 1
  /\ \A i \in 1..Len(ds.suggestedItems) : IsCalendarDate(ds.suggestedItems[i])
  /\ \A i \in 1..Len(ds.inputValue) : ds.inputValue[i] \in STRING
  /\ \A i \in 1..Len(ds.calls) :
       ds.calls[i] = EmptyString \/ IsCalendarDate(ds.calls[i])

\* C32: from every reachable state every event, Type with any text, ArrowUp,
\* ArrowDown, Enter, Blur, mouse enter and out, the month, year and Today
\* buttons, leaves a defined state and raises no error.
C32_EveryEventLeavesDefinedState ==
  /\ DefinedState(pending)
  /\ \A text \in TypedTexts : DefinedState(inputHandleChange(pending, text))
  /\ \A key \in {"Enter", "ArrowDown", "ArrowUp"} :
       DefinedState(keyDown(pending, key).ds)
  /\ DefinedState(inputBlur(pending, valueAfterBlur(pending)))
  /\ DefinedState(setDownshiftHighlightedIndex(pending, Null, "unknown"))
  /\ \A amount \in {-12, -1, 1, 12} : DefinedState(jumpMonth(pending, amount, 0))
  /\ DefinedState(showToday(pending))

\* ArrowDown was pressed with no highlight, a pending suggestion and no
\* value: the state is as before.
C32_Witness ==
  /\ lastEvent = "ArrowDown"
  /\ highlightedIndex = Null
  /\ suggestedItems # <<>>
  /\ value = EmptyString
  /\ IsCalendarDate(calendarDate)

\* The second day of the displayed month.
SecondDay == MkDate(YearOf(calendarDate), MonthOf(calendarDate), 2)

\* C33: with the highlight absent, ArrowUp is handled as if index 0 were
\* highlighted: when the day before the first day of the displayed month is
\* in range, the displayed month moves back by one month and its last day is
\* highlighted; and ArrowDown is blocked exactly when the second day of the
\* displayed month, not the first, is out of range.
C33_ArrowKeysWithoutHighlight ==
  [][ /\ ( /\ highlightedIndex = Null
           /\ lastEvent' = "ArrowUp"
           /\ InRange(LastDayOfPreviousMonth(calendarDate)) )
        => /\ MonthIndex(calendarDate') = MonthIndex(calendarDate) - 1
           /\ highlightedIndex' = getDaysInMonth(calendarDate') - 1
      /\ (highlightedIndex = Null /\ lastEvent' = "ArrowDown")
        => /\ downshiftPrevented' <=> ~InRange(SecondDay)
           /\ ~InRange(SecondDay)
                => UNCHANGED <<calendarDate, highlightedIndex, suggestedItems>>
    ]_vars

\* ArrowDown was blocked with no highlight although the first day of the
\* displayed month is in range: the second day is not.
C33_Witness ==
  /\ lastEvent = "ArrowDown"
  /\ downshiftPrevented
  /\ highlightedIndex = Null
  /\ InRange(itemAt(0))
  /\ ~InRange(SecondDay)

\* C34: while isReadOnly is true no key press changes the displayed month,
\* the highlight or the suggestions, the calendar grid is never shown, also
\* with the appearance filter, a click on the input does not open the menu,
\* and no event calls onChange.
C34_ReadOnlyIsInert ==
  [][ isReadOnly =>
        /\ lastEvent' \in {"Enter", "ArrowDown", "ArrowUp"}
             => UNCHANGED <<calendarDate, highlightedIndex, suggestedItems>>
        /\ ~isOpen'
        /\ ~menuShown
        /\ onChangeCalls' = <<>>
    ]_vars

\* C35: at every render of Filters, the one between a change of props and
\* its effect included, every key of the visible list has its filter in
\* props.filters.
C35_VisibleKeysHaveConfiguration ==
  \A i \in 1..Len(localVisibleFilters) :
    IsIn(localVisibleFilters[i], keysOf(filters))

\* The elements of a sequence.
Elements(seq) == {seq[i] : i \in 1..Len(seq)}

\* C36: once the props have changed and the effect has run, the visible list
\* holds the keys visible before the change, the persistent keys and the
\* applied keys, each only if its filter is in props.filters, and no other.
C36_EffectKeepsVisibleAddsRequired ==
  [][ filtersEvent' = "PropsChange" /\ effectPending' =>
        Elements(syncVisibleFilters(localVisibleFilters', filters',
                                    appliedFilters'))
          = (Elements(localVisibleFilters)
               \cup Elements(persistedKeysOf(filters'))
               \cup Elements(appliedFilters'))
              \cap Elements(keysOf(filters'))
    ]_vars

\* C36 amended: once the props have changed and the effect has run, the
\* visible list holds, of the keys with a filter in props.filters, the
\* persistent keys, the applied keys and, provided the number of persistent
\* filters has not changed, the keys visible before the change; when that
\* number has changed the keys visible before are dropped.
C36_EffectKeepsVisibleUnlessReset ==
  [][ filtersEvent' = "PropsChange" /\ effectPending' =>
        LET kept == IF Len(persistedFiltersRef)
                         = Len(persistedKeysOf(filters'))
                      THEN Elements(localVisibleFilters) ELSE {}
        IN  Elements(syncVisibleFilters(localVisibleFilters', filters',
                                        appliedFilters'))
              = (kept \cup Elements(persistedKeysOf(filters'))
                      \cup Elements(appliedFilters'))
                  \cap Elements(keysOf(filters'))
    ]_vars

\* The effect of a props change has run and a filter that is neither
\* persistent nor applied is still visible.
C36_Witness ==
  /\ filtersEvent = "PropsChange"
  /\ ~effectPending
  /\ \E i \in 1..Len(localVisibleFilters) :
       /\ ~IsIn(localVisibleFilters[i], persistedFilterKeys)
       /\ ~IsIn(localVisibleFilters[i], appliedFilters)

\* C37: clear all is offered only while more than one filter is applied; a
\* click on it calls onClearAllRequest once and makes the visible list the
\* persistent filter keys.
C37_ClearAllKeepsPersistentOnly ==
  filtersEvent = "ClearAll" =>
    /\ Len(appliedFilters) > 1
    /\ filterCalls = << <<"onClearAllRequest", "">> >>
    /\ localVisibleFilters = persistedFilterKeys

\* Clear all was clicked with a persistent filter among the applied ones:
\* it alone is visible.
C37_Witness ==
  /\ filtersEvent = "ClearAll"
  /\ Len(persistedFilterKeys) = 1
  /\ Len(filters) > 1
  /\ localVisibleFilters = persistedFilterKeys
  /\ filterCalls # <<>>

\* C38: a remove request for a visible filter k takes exactly k out of the
\* visible list, the other keys staying in their order, calls the
\* onClearRequest of that filter once and leaves showFilterControls as it is.
C38_RemoveTakesOutOneKey ==
  [][ filtersEvent' = "Remove" =>
        \E i \in 1..Len(localVisibleFilters) :
          /\ localVisibleFilters'
               = SubSeq(localVisibleFilters, 1, i - 1)
                   \o SubSeq(localVisibleFilters, i + 1,
                             Len(localVisibleFilters))
          /\ ~IsIn(localVisibleFilters[i], localVisibleFilters')
          /\ filterCalls' = << <<"onClearRequest", localVisibleFilters[i]>> >>
          /\ showFilterControls' = showFilterControls
    ]_vars

\* The first of two visible filters was removed while the controls were
\* shown: the other one is still visible.
C38_Witness ==
  /\ filtersEvent = "Remove"
  /\ showFilterControls
  /\ Len(localVisibleFilters) = 1
  /\ filterCalls = << <<"onClearRequest", AllFilterKeys[1]>> >>
  /\ localVisibleFilters = <<AllFilterKeys[2]>>

\* The places of the filter key in the options: <<i, 0>> for the top-level
\* option i, <<i, j>> for the option j of the group i.
PlacesOf(key, options) ==
  {p \in (1..Len(options)) \X (0..MaxFilters + 1) :
     \/ /\ p[2] = 0
        /\ options[p[1]].kind = "option"
        /\ options[p[1]].key = key
     \/ /\ p[2] > 0
        /\ options[p[1]].kind = "group"
        /\ p[2] <= Len(options[p[1]].options)
        /\ options[p[1]].options[p[2]] = key}

\* C39: getFilterOptions places every filter of filters exactly once: in the
\* group whose key is its groupKey when filterGroups is given and has such a
\* group, as a top-level option otherwise; and every filter group is in the
\* result exactly once, also when it has no options.
C39_EveryFilterPlacedOnce ==
  (call.name = "getFilterOptions" /\ call.applied) =>
    LET fs == call.args.filters
        filterGroups == call.args.filterGroups
        options == call.result
        grouped(f) == /\ filterGroups.given
                      /\ f.groupKey # ""
                      /\ IsIn(f.groupKey, filterGroups.groups)
    IN  /\ \A n \in 1..Len(fs) :
             /\ Cardinality(PlacesOf(fs[n].key, options)) = 1
             /\ \A p \in PlacesOf(fs[n].key, options) :
                  IF grouped(fs[n])
                    THEN p[2] > 0 /\ options[p[1]].key = fs[n].groupKey
                    ELSE p[2] = 0
        /\ \A g \in 1..Len(filterGroups.groups) :
             Cardinality({i \in 1..Len(options) :
                            /\ options[i].kind = "group"
                            /\ options[i].key = filterGroups.groups[g]}) = 1

\* Two groups are given; one filter is in the first, the other names a
\* group that is not given and is a top-level option; the second group is
\* in the result without options.
C39_Witness ==
  /\ call.name = "getFilterOptions"
  /\ call.applied
  /\ call.args.filterGroups.groups = <<GroupKeys[1], GroupKeys[2]>>
  /\ Len(call.args.filters) = 2
  /\ call.args.filters[1].groupKey = GroupKeys[1]
  /\ call.args.filters[2].groupKey = GroupKeys[3]
  /\ Len(call.result) = 3
  /\ call.result[1].kind = "option"
  /\ call.result[2].options = <<AllFilterKeys[1]>>
  /\ call.result[3].options = <<>>

\* The callback is among the calls.
Called(callback, calls) == \E i \in 1..Len(calls) : calls[i] = callback

\* C40: every focus of a TranslationInput calls onFocus when it is given,
\* once; it calls onToggle, when given, before that and once, exactly when
\* the input is collapsed; a focus of an expanded input never calls onToggle.
C40_FocusExpandsCollapsedInput ==
  ( /\ call.name = "TranslationInput"
    /\ call.applied
    /\ call.result.event = "Focus" ) =>
    LET p == call.args
        calls == call.result.calls
        wasCollapsed == call.result.wasCollapsed
    IN  /\ Called("onFocus", calls) <=> p.hasOnFocus
        /\ Called("onToggle", calls) <=> (wasCollapsed /\ p.hasOnToggle)
        /\ ~wasCollapsed => ~Called("onToggle", calls)
        /\ Len(calls) <= 2
        /\ Len(calls) = 2 => calls = <<"onToggle", "onFocus">>

\* A collapsed input was focused: onToggle, then onFocus were called and the
\* parent has expanded it.
C40_Witness ==
  /\ call.name = "TranslationInput"
  /\ call.applied
  /\ call.result.event = "Focus"
  /\ call.result.wasCollapsed
  /\ call.result.calls = <<"onToggle", "onFocus">>
  /\ ~call.args.isCollapsed

====
